---- MODULE Spec2Model ----
(***************************************************************************)
(* Cracker Shop (src/app.py): the session cart, the order table of          *)
(* orders.db and the request handlers that turn the one into the other.     *)
(*                                                                         *)
(* Representation.                                                          *)
(*  - A Python string is the sequence of its characters, so that int(),     *)
(*    str(), startswith() and split() are computed, not assumed. A         *)
(*    character is its Unicode code point, as ord() gives it: 49 is "1",   *)
(*    9 is the tab, 1635 is ARABIC-INDIC DIGIT THREE. The text a sequence  *)
(*    spells is written next to it.                                        *)
(*  - A Python int has no width: it is its sign and its decimal digits, so *)
(*    that a quantity of any size is added, multiplied and stored as the    *)
(*    interpreter does it. Ids of orders, which count the rows inserted,    *)
(*    and positions in sequences are numbers of the model.                  *)
(*  - A value that may be None (a form field, an environment variable, a   *)
(*    query argument) is None or PyStr(characters): the text 'None' is    *)
(*    not None.                                                            *)
(*  - Names the code fixes (templates, endpoints, flash messages, product  *)
(*    names of the catalog) are TLA+ strings.                              *)
(*  - A dict is a sequence of entries in insertion order, without           *)
(*    duplicate keys.                                                       *)
(*  - A handler is one action; what the handler computes is an operator     *)
(*    of the state it reads, its inputs and the outcome of each external    *)
(*    call (sqlite, the mail header parser, SMTP, Stripe), which the       *)
(*    action draws with \E.                                                *)
(*  - The session is the mapping the handlers read and assign; the files   *)
(*    flask_session keeps it in between two requests are not modelled.     *)
(*  - Spec serves the requests of the session one at a time. A checkout    *)
(*    submission commits its row before it sends the mail, asks Stripe and *)
(*    answers; the listing of the operator is served in between as well.   *)
(*    SpecConc serves up to three requests of one session at once: each    *)
(*    works on the copy of the session that was loaded when it started,    *)
(*    and a response stores the copy.                                      *)
(***************************************************************************)
EXTENDS Integers, Sequences, FiniteSets, TLC

VARIABLES PRODUCTS, STRIPE_SECRET, session, orders, last, served, inflight

vars == <<PRODUCTS, STRIPE_SECRET, session, orders, last, served, inflight>>

(* ------------------------------ bounds -------------------------------- *)

\* The number of requests served (and process starts after the first) that
\* a behaviour of Spec is followed for.
MaxRequests == 4

\* The number of requests started that a behaviour of SpecConc is followed
\* for.
MaxConcRequests == 4

(* ---------------------------- Python ints ----------------------------- *)

\* sys.get_int_max_str_digits(): int() refuses a text of more digits and
\* str() an int of more.
MaxStrDigits == 4300

\* A Python int: whether it is negative, and the decimal digits of its
\* magnitude, the most significant first and none for 0. 45 is
\* [neg |-> FALSE, mag |-> <<4, 5>>].
Zero == [neg |-> FALSE, mag |-> << >>]

\* The digits of a natural number of the model.
RECURSIVE DigitsOf(_)
DigitsOf(n) == IF n = 0 THEN << >> ELSE Append(DigitsOf(n \div 10), n % 10)

\* The Python int of value n.
Num(n) ==
    IF n < 0 THEN [neg |-> TRUE, mag |-> DigitsOf(0 - n)]
    ELSE [neg |-> FALSE, mag |-> DigitsOf(n)]

\* The int of a sign and a magnitude: there is no negative 0.
Signed(neg, mag) == [neg |-> neg /\ mag # << >>, mag |-> mag]

\* The digit of 10^k in the magnitude a.
DigitAt(a, k) == IF k < Len(a) THEN a[Len(a) - k] ELSE 0

\* The digits a without the zeros they start with.
StripZeros(a) ==
    IF \A i \in 1..Len(a) : a[i] = 0 THEN << >>
    ELSE SubSeq(a, CHOOSE i \in 1..Len(a) : a[i] # 0 /\ \A j \in 1..(i - 1) : a[j] = 0,
                Len(a))

\* a < b, of magnitudes.
MagLess(a, b) ==
    \/ Len(a) < Len(b)
    \/ /\ Len(a) = Len(b)
       /\ \E i \in 1..Len(a) : a[i] < b[i] /\ \A j \in 1..(i - 1) : a[j] = b[j]

\* Sums, differences and products are computed as on paper: the sum of
\* each column first, cols[k] that of 10^(k - 1), then the carries.
\*
\* Carry: the digits of the columns lo..(hi - 1), the least significant
\* first, and what they carry over, for the carry c coming in. The columns
\* are carried one half after the other, so that a number of 4300 digits
\* takes a dozen nested steps and not 4300.
RECURSIVE Carry(_, _, _, _)
CarryJoin(low, high) == [digits |-> low.digits \o high.digits, over |-> high.over]

CarryHigh(cols, mid, hi, low) == CarryJoin(low, Carry(cols, mid, hi, low.over))

Carry(cols, lo, hi, c) ==
    IF hi <= lo THEN [digits |-> << >>, over |-> c]
    ELSE IF hi = lo + 1
    THEN [digits |-> << (cols[lo] + c) % 10 >>, over |-> (cols[lo] + c) \div 10]
    ELSE CarryHigh(cols, (lo + hi) \div 2, hi, Carry(cols, lo, (lo + hi) \div 2, c))

\* What is carried over, then the digits, the most significant first.
CarryOut(r) ==
    StripZeros(DigitsOf(r.over)
                   \o [k \in 1..Len(r.digits) |-> r.digits[Len(r.digits) + 1 - k]])

\* The magnitude whose column sums are cols (no sum of all is negative).
Carried(cols) == CarryOut(Carry(cols, 1, Len(cols) + 1, 0))

Max(m, n) == IF m < n THEN n ELSE m

Min(m, n) == IF m < n THEN m ELSE n

\* a + b
MagAdd(a, b) ==
    Carried([k \in 1..Max(Len(a), Len(b)) |-> DigitAt(a, k - 1) + DigitAt(b, k - 1)])

\* a - b, a >= b
MagSub(a, b) == Carried([k \in 1..Len(a) |-> DigitAt(a, k - 1) - DigitAt(b, k - 1)])

\* a * m, m a natural number of the model.
MagTimes(a, m) == Carried([k \in 1..Len(a) |-> DigitAt(a, k - 1) * m])

\* The column of 10^k of a * b: the products of the digit of 10^i of a and
\* that of 10^(k - i) of b, i in lo..(hi - 1), added up.
RECURSIVE Column(_, _, _, _, _)
Column(a, b, k, lo, hi) ==
    IF hi <= lo THEN 0
    ELSE IF hi = lo + 1 THEN DigitAt(a, lo) * DigitAt(b, k - lo)
    ELSE Column(a, b, k, lo, (lo + hi) \div 2) + Column(a, b, k, (lo + hi) \div 2, hi)

\* a * b
MagMul(a, b) ==
    IF a = << >> \/ b = << >> THEN << >>
    ELSE Carried([k \in 1..(Len(a) + Len(b) - 1) |->
                    Column(a, b, k - 1, Max(0, k - Len(b)), Min(k, Len(a)))])

\* The digits of the quotient of a by d, a natural number of the model,
\* from the i-th digit of a on, and the remainder; rem is what the digits
\* before leave. (Of the totals that fit a column of sqlite, of 19 digits
\* at most.)
RECURSIVE MagDiv(_, _, _, _)
MagDiv(a, d, i, rem) ==
    IF i > Len(a) THEN << >>
    ELSE << (rem * 10 + a[i]) \div d >> \o MagDiv(a, d, i + 1, (rem * 10 + a[i]) % d)

RECURSIVE MagMod(_, _, _, _)
MagMod(a, d, i, rem) ==
    IF i > Len(a) THEN rem ELSE MagMod(a, d, i + 1, (rem * 10 + a[i]) % d)

\* x + y
Add(x, y) ==
    IF x.neg = y.neg THEN Signed(x.neg, MagAdd(x.mag, y.mag))
    ELSE IF MagLess(x.mag, y.mag)
    THEN Signed(y.neg, MagSub(y.mag, x.mag))
    ELSE Signed(x.neg, MagSub(x.mag, y.mag))

\* x * y
Mul(x, y) == Signed(x.neg # y.neg, MagMul(x.mag, y.mag))

\* x < y
Less(x, y) ==
    IF x.neg # y.neg THEN x.neg
    ELSE IF x.neg THEN MagLess(y.mag, x.mag)
    ELSE MagLess(x.mag, y.mag)

(* --------------------------- Python values ---------------------------- *)

\* A Python value the code tests, compares or converts: None, an int, a
\* float (.i, the int it equals: the floats here are whole numbers) or a
\* str (.s, its characters).
None == [t |-> "NoneType", i |-> Zero, s |-> << >>]

PyInt(n) == [t |-> "int", i |-> n, s |-> << >>]

PyFloat(n) == [t |-> "float", i |-> n, s |-> << >>]

PyStr(s) == [t |-> "str", i |-> Zero, s |-> s]

\* bool(v): None, 0, 0.0 and "" are false.
Truthy(v) ==
    IF v.t = "NoneType" THEN FALSE
    ELSE IF v.t \in {"int", "float"} THEN v.i # Zero
    ELSE v.s # << >>

\* The code points of the digits zero of Unicode (category Nd), the ASCII
\* one first: the ten digits of a script follow its zero, and int() takes
\* the digits of any of them.
DigitZeros ==
    << 48, 1632, 1776, 1984, 2406, 2534, 2662, 2790,
       2918, 3046, 3174, 3302, 3430, 3558, 3664, 3792,
       3872, 4160, 4240, 6112, 6160, 6470, 6608, 6784,
       6800, 6992, 7088, 7232, 7248, 42528, 43216, 43264,
       43472, 43504, 43600, 44016, 65296, 66720, 68912, 69734,
       69872, 69942, 70096, 70384, 70736, 70864, 71248, 71360,
       71472, 71904, 72016, 72784, 73040, 73120, 92768, 92864,
       93008, 120782, 120792, 120802, 120812, 120822, 123200, 123632,
       125264, 130032 >>

IsDigit(c) == \E k \in 1..Len(DigitZeros) : c - DigitZeros[k] \in 0..9

DigitVal(c) ==
    c - DigitZeros[CHOOSE k \in 1..Len(DigitZeros) : c - DigitZeros[k] \in 0..9]

\* The whitespace int() skips around the number: the ASCII characters
\* \t, \n, \v, \f, \r and space, and the Unicode spaces beyond ASCII (the
\* separators U+001C..U+001F, whitespace for str.isspace, are not skipped).
Whitespace ==
    (9..13) \cup {32, 133, 160, 5760} \cup (8192..8202)
        \cup {8232, 8233, 8239, 8287, 12288}

IsSpace(c) == c \in Whitespace

\* s from its first character that is not whitespace on.
LStrip(s) ==
    IF \A i \in 1..Len(s) : IsSpace(s[i]) THEN << >>
    ELSE SubSeq(s, CHOOSE i \in 1..Len(s) :
                       ~IsSpace(s[i]) /\ \A j \in 1..(i - 1) : IsSpace(s[j]),
                Len(s))

\* s up to its last character that is not whitespace, the k-th from the
\* end.
RStrip(s) ==
    IF \A i \in 1..Len(s) : IsSpace(s[i]) THEN << >>
    ELSE SubSeq(s, 1, Len(s) + 1 - CHOOSE k \in 1..Len(s) :
                          /\ ~IsSpace(s[Len(s) + 1 - k])
                          /\ \A j \in 1..(k - 1) : IsSpace(s[Len(s) + 1 - j]))

\* Digits, with single underscores between them.
AllDigits(s) ==
    /\ s # <<>>
    /\ \A i \in 1..Len(s) : s[i] = 95 (* "_" *) \/ IsDigit(s[i])
    /\ s[1] # 95 (* "_" *)
    /\ s[Len(s)] # 95 (* "_" *)
    /\ \A i \in 1..(Len(s) - 1) : ~(s[i] = 95 (* "_" *) /\ s[i + 1] = 95 (* "_" *))

NotUnderscore(c) == c # 95 (* "_" *)

\* The digits of such a string: an underscore between them counts for
\* nothing.
Digits(s) == SelectSeq(s, NotUnderscore)

\* The magnitude that digits spell, zeros at the front included.
DigitsValue(digits) == StripZeros([i \in 1..Len(digits) |-> DigitVal(digits[i])])

\* The digits of the number, after its sign: their value, signed, or
\* ValueError when they are not digits or are more than MaxStrDigits, the
\* zeros at the front counted.
ParseDigits(body, neg) ==
    IF Len(Digits(body)) > MaxStrDigits \/ ~AllDigits(body)
    THEN [exc |-> "ValueError", val |-> Zero]
    ELSE [exc |-> "", val |-> Signed(neg, DigitsValue(Digits(body)))]

\* The number without the whitespace around it: an optional sign, then
\* the digits.
ParseSigned(t) ==
    ParseDigits(IF t # <<>> /\ Head(t) \in {45 (* "-" *), 43 (* "+" *)} THEN Tail(t) ELSE t,
                t # <<>> /\ Head(t) = 45 (* "-" *))

\* int(s) of a str: surrounding whitespace, an optional sign, decimal
\* digits; anything else raises ValueError.
ParseInt(s) == ParseSigned(RStrip(LStrip(s)))

\* int(x) of an int or a str.
int(x) == IF x.t = "int" THEN [exc |-> "", val |-> x.i] ELSE ParseInt(x.s)

\* str(n) of an int of at most MaxStrDigits digits.
str(n) ==
    (IF n.neg THEN <<45>> (* "-" *) ELSE << >>)
        \o (IF n.mag = << >> THEN <<48>> (* "0" *)
            ELSE [k \in 1..Len(n.mag) |-> 48 + n.mag[k]])

(* ------------------------------ catalog ------------------------------- *)

\* The catalogs products.json may hold when the process starts: two
\* products; the same shop after product 1 changed its price and product 2
\* was withdrawn; and no catalog (file missing or malformed).
CatalogA ==
    << [id |-> Num(1), name |-> "Rocket", price |-> Num(10)],
       [id |-> Num(2), name |-> "Sparkler", price |-> Num(25)] >>

CatalogB == << [id |-> Num(1), name |-> "Rocket", price |-> Num(12)] >>

CatalogNone == << >>

Catalogs == {CatalogA, CatalogB, CatalogNone}

\* One step of the scan of get_product: n is int(pid), p the product
\* visited, rest the scan of the products after it.
first_match(n, p, rest) ==
    IF n.exc # "" THEN [exc |-> n.exc, val |-> << >>]
    ELSE IF p.id = n.val THEN [exc |-> "", val |-> <<p>>]
    ELSE rest

\* get_product(pid): the first product whose id equals int(pid), as <<p>>;
\* None as << >>. int(pid) is evaluated once per product visited, so it
\* raises only when the scan visits a product.
RECURSIVE get_product_from(_, _, _)
get_product_from(P, pid, k) ==
    IF k > Len(P) THEN [exc |-> "", val |-> << >>]
    ELSE first_match(int(pid), P[k], get_product_from(P, pid, k + 1))

get_product(P, pid) == get_product_from(P, pid, 1)

(* ------------------------------ session ------------------------------- *)

\* The visitor's session: the keys it holds and the value under "cart",
\* a dict from product-id string to quantity (<< >> when the key is absent).
NoCart == [keys |-> {}, cart |-> << >>]

\* session.get("cart", {})
session_get_cart(sess) == IF "cart" \in sess.keys THEN sess.cart ELSE << >>

\* session["cart"] = cart
session_set_cart(sess, cart) == [keys |-> sess.keys \cup {"cart"}, cart |-> cart]

\* Mutant: the pop is lost.
session_pop_cart_keep(sess) == sess

\* session.pop("cart", None)
session_pop_cart(sess) == [keys |-> sess.keys \ {"cart"}, cart |-> << >>]

\* cart.get(key, default)
dict_get(d, key, default) ==
    IF \E i \in 1..Len(d) : d[i].pid = key
    THEN d[CHOOSE i \in 1..Len(d) : d[i].pid = key].qty
    ELSE default

\* cart[key] = qty: an existing key keeps its place, a new key goes last.
dict_set(d, key, qty) ==
    IF \E i \in 1..Len(d) : d[i].pid = key
    THEN [i \in 1..Len(d) |-> IF d[i].pid = key THEN [pid |-> key, qty |-> qty] ELSE d[i]]
    ELSE Append(d, [pid |-> key, qty |-> qty])

(* ----------------------------- responses ------------------------------ *)

\* What a handler returns: the HTTP status, the redirect target or the
\* template rendered, the order id carried in the redirect URL (0: none),
\* the messages flashed, and the template's data.
Redirect(to, code, order_id, flash) ==
    [status |-> code, to |-> to, order_id |-> order_id, flash |-> flash,
     items |-> << >>, total |-> Zero]

Render(template, items, total) ==
    [status |-> 200, to |-> template, order_id |-> 0, flash |-> << >>,
     items |-> items, total |-> total]

\* An exception no handler catches: Flask answers 500.
Abort(exc) ==
    [status |-> 500, to |-> exc, order_id |-> 0, flash |-> << >>,
     items |-> << >>, total |-> Zero]

(* ---------------------------- add_to_cart ----------------------------- *)

\* Mutant: the cart is not written back to the session.
add_to_cart_unsaved(P, sess, pid) ==
    LET prod == get_product(P, PyInt(pid))
    IN  IF prod.val = << >>
        THEN [session |-> sess,
              resp |-> Redirect("index", 302, 0, << <<"error", "Product not found">> >>)]
        ELSE [session |-> sess,
              resp |-> Redirect("index", 302, 0, << <<"success", "Added">> >>)]

\* Mutant: the quantity is set to 1, not incremented.
add_to_cart_reset(P, sess, pid) ==
    LET prod == get_product(P, PyInt(pid))
    IN  IF prod.val = << >>
        THEN [session |-> sess,
              resp |-> Redirect("index", 302, 0, << <<"error", "Product not found">> >>)]
        ELSE LET cart == session_get_cart(sess)
                 cart2 == dict_set(cart, str(pid), Num(1))
             IN  [session |-> session_set_cart(sess, cart2),
                  resp |-> Redirect("index", 302, 0, << <<"success", "Added">> >>)]

\* Lines 85-95.
add_to_cart(P, sess, pid) ==
    LET prod == get_product(P, PyInt(pid))
    IN  IF prod.val = << >>
        THEN [session |-> sess,
              resp |-> Redirect("index", 302, 0, << <<"error", "Product not found">> >>)]
        ELSE LET cart == session_get_cart(sess)
                 cart2 == dict_set(cart, str(pid), Add(dict_get(cart, str(pid), Zero), Num(1)))
             IN  [session |-> session_set_cart(sess, cart2),
                  resp |-> Redirect("index", 302, 0, << <<"success", "Added">> >>)]

(* ---------------------------- update_cart ----------------------------- *)

\* key.startswith(prefix)
startswith(s, prefix) ==
    Len(s) >= Len(prefix) /\ SubSeq(s, 1, Len(prefix)) = prefix

\* key.split(sep, 1)[1]: what follows the first sep.
split1_second(s, sep) ==
    LET k == CHOOSE i \in 1..Len(s) : s[i] = sep /\ \A j \in 1..(i - 1) : s[j] # sep
    IN  SubSeq(s, k + 1, Len(s))

QtyPrefix == <<113, 116, 121, 45>> (* "qty-" *)

\* Mutant: a quantity of 0 is stored.
RECURSIVE update_cart_loop_nonneg(_, _, _)
update_cart_loop_nonneg(data, k, cart) ==
    IF k > Len(data) THEN cart
    ELSE LET key == data[k][1]
         IN  IF \E j \in 1..(k - 1) : data[j][1] = key
             THEN update_cart_loop_nonneg(data, k + 1, cart)
             ELSE IF startswith(key, QtyPrefix)
             THEN LET pid == split1_second(key, 45 (* "-" *))
                      n == ParseInt(data[k][2])
                      qty == IF n.exc # "" THEN Zero ELSE n.val
                  IN  update_cart_loop_nonneg(data, k + 1,
                          IF ~Less(qty, Zero) THEN dict_set(cart, pid, qty) ELSE cart)
             ELSE update_cart_loop_nonneg(data, k + 1, cart)

\* The loop of update_cart over the submitted fields, in form order: data
\* is the form as sent, a field name possibly more than once; the loop
\* visits each name once, where it first occurs, and data.get gives the
\* first value sent under it.
RECURSIVE update_cart_loop(_, _, _)
update_cart_loop(data, k, cart) ==
    IF k > Len(data) THEN cart
    ELSE LET key == data[k][1]
         IN  IF \E j \in 1..(k - 1) : data[j][1] = key
             THEN update_cart_loop(data, k + 1, cart)
             ELSE IF startswith(key, QtyPrefix)
             THEN LET pid == split1_second(key, 45 (* "-" *))
                      n == ParseInt(data[k][2])
                      qty == IF n.exc # "" THEN Zero ELSE n.val
                  IN  update_cart_loop(data, k + 1,
                          IF Less(Zero, qty) THEN dict_set(cart, pid, qty) ELSE cart)
             ELSE update_cart_loop(data, k + 1, cart)

\* Mutant: the submitted quantities are merged into the cart of the session.
update_cart_merge(sess, data) ==
    [session |-> session_set_cart(sess,
                     update_cart_loop(data, 1, session_get_cart(sess))),
     resp |-> Redirect("cart", 302, 0, << >>)]

\* Lines 114-128: the new cart starts empty and replaces the session's.
update_cart(sess, data) ==
    [session |-> session_set_cart(sess, update_cart_loop(data, 1, << >>)),
     resp |-> Redirect("cart", 302, 0, << >>)]

(* -------------------------------- JSON -------------------------------- *)

\* JSON text as its sequence of tokens: punctuation, strings, numbers.
JPunct(c) == [k |-> "punct", s |-> c, n |-> Zero]

JString(x) == [k |-> "string", s |-> x, n |-> Zero]

JNumber(x) == [k |-> "number", s |-> "", n |-> x]

\* json.dumps of one line item, keys in the order the dict was built.
json_dumps_item(it) ==
    << JPunct("{"),
       JString("id"), JPunct(":"), JNumber(it.id), JPunct(","),
       JString("name"), JPunct(":"), JString(it.name), JPunct(","),
       JString("price"), JPunct(":"), JNumber(it.price), JPunct(","),
       JString("qty"), JPunct(":"), JNumber(it.qty),
       JPunct("}") >>

RECURSIVE json_dumps_from(_, _)
json_dumps_from(items, k) ==
    IF k > Len(items) THEN << >>
    ELSE (IF k > 1 THEN <<JPunct(",")>> ELSE << >>)
         \o json_dumps_item(items[k]) \o json_dumps_from(items, k + 1)

\* json.dumps(items) writes an int as str() does, and raises ValueError
\* as str() does on one of more than MaxStrDigits digits.
json_dumps_raises(items) ==
    \E k \in 1..Len(items) :
        \/ Len(items[k].id.mag) > MaxStrDigits
        \/ Len(items[k].price.mag) > MaxStrDigits
        \/ Len(items[k].qty.mag) > MaxStrDigits

\* json.dumps(items), when it does not raise.
json_dumps(items) == <<JPunct("[")>> \o json_dumps_from(items, 1) \o <<JPunct("]")>>

JValue(tok) == IF tok.k = "number" THEN tok.n ELSE tok.s

\* The members of the object that opens before position k, as
\* <<key, value>> pairs, and the position after its closing brace.
RECURSIVE json_loads_members(_, _, _)
json_loads_members(t, k, acc) ==
    LET acc2 == Append(acc, <<t[k].s, JValue(t[k + 2])>>)
    IN  IF t[k + 3] = JPunct(",")
        THEN json_loads_members(t, k + 4, acc2)
        ELSE [pairs |-> acc2, next |-> k + 4]

JObject(pairs) ==
    [key \in {pairs[i][1] : i \in 1..Len(pairs)} |->
        pairs[CHOOSE i \in 1..Len(pairs) :
                 pairs[i][1] = key /\ \A j \in (i + 1)..Len(pairs) : pairs[j][1] # key][2]]

\* The objects of the array from position k on.
RECURSIVE json_loads_array(_, _, _)
json_loads_array(t, k, acc) ==
    IF t[k] = JPunct("]") THEN acc
    ELSE IF t[k] = JPunct(",") THEN json_loads_array(t, k + 1, acc)
    ELSE LET m == json_loads_members(t, k + 1, << >>)
         IN  json_loads_array(t, m.next, Append(acc, JObject(m.pairs)))

\* json.loads(text) of an array of flat objects.
json_loads(t) == json_loads_array(t, 2, << >>)

(* ------------------------------ checkout ------------------------------ *)

\* Lines 138-146: the line items and total of the cart, in cart order;
\* an entry get_product does not find is skipped, an exception of
\* get_product leaves the loop.
RECURSIVE checkout_items(_, _, _, _)
checkout_items(P, cart, k, acc) ==
    IF k > Len(cart) THEN acc
    ELSE LET g == get_product(P, PyStr(cart[k].pid))
         IN  IF g.exc # "" THEN [acc EXCEPT !.exc = g.exc]
             ELSE IF g.val # << >>
             THEN LET p == g.val[1]
                      it == [id |-> p.id, name |-> p.name, price |-> p.price,
                             qty |-> cart[k].qty]
                  IN  checkout_items(P, cart, k + 1,
                          [acc EXCEPT !.items = Append(@, it),
                                      !.total = Add(@, Mul(p.price, cart[k].qty))])
             ELSE checkout_items(P, cart, k + 1, acc)

\* 2^k, its digits, as the product of three powers of two that are numbers
\* of the model.
TwoTo(k) ==
    MagMul(MagMul(DigitsOf(2^(k \div 3)), DigitsOf(2^(k \div 3))),
           DigitsOf(2^(k - 2 * (k \div 3))))

\* 2^53 to 2^64: a double has a mantissa of 53 bits, an SQLite INTEGER is
\* one of 64 bits.
PowersOfTwo == [k \in 53..64 |-> TwoTo(k)]

\* Whether sqlite3 binds the int as an SQLite INTEGER: -2^63 <= n < 2^63.
FitsInteger(n) ==
    IF n.neg THEN ~MagLess(PowersOfTwo[63], n.mag)
    ELSE MagLess(n.mag, PowersOfTwo[63])

\* The doubles around the magnitude a < 2^64 are 2^e apart: e is 0 below
\* 2^53, 1 from there to 2^54, and so on.
Spacing(a) ==
    CHOOSE e \in 0..11 :
        /\ MagLess(a, PowersOfTwo[53 + e])
        /\ e = 0 \/ ~MagLess(a, PowersOfTwo[52 + e])

\* The nearer of q * 2^e and (q + 1) * 2^e to q * 2^e + r, r < 2^e; of two
\* as near, the one of the even factor.
RoundHalfEven(q, r, e) ==
    MagTimes(IF 2 * r > 2^e \/ (2 * r = 2^e /\ DigitAt(q, 0) % 2 = 1)
             THEN MagAdd(q, <<1>>)
             ELSE q,
             2^e)

\* The double nearest to the magnitude a, the doubles around it 2^e apart.
Nearest(a, e) ==
    RoundHalfEven(StripZeros(MagDiv(a, 2^e, 1, 0)), MagMod(a, 2^e, 1, 0), e)

\* total REAL (line 44): the column holds the double nearest to the
\* integer bound to it, and a SELECT reads a float.
Real(n) == PyFloat(Signed(n.neg, Nearest(n.mag, Spacing(n.mag))))

\* Mutant: the row is written as paid.
order_row_paid(order_id, form, items, total) ==
    [id |-> order_id, customer_name |-> form.name, email |-> form.email,
     phone |-> form.phone, address |-> form.address,
     delivery_type |-> form.delivery_type, items |-> json_dumps(items),
     total |-> Real(total), paid |-> 1]

\* Lines 166-169: the row inserted; items as JSON text, total as REAL,
\* paid 0.
order_row(order_id, form, items, total) ==
    [id |-> order_id, customer_name |-> form.name, email |-> form.email,
     phone |-> form.phone, address |-> form.address,
     delivery_type |-> form.delivery_type, items |-> json_dumps(items),
     total |-> Real(total), paid |-> 0]

\* id INTEGER PRIMARY KEY AUTOINCREMENT: one more than the largest id used;
\* no row is ever deleted, so that is the id of the last row.
next_rowid(ords) == IF ords = << >> THEN 1 ELSE ords[Len(ords)].id + 1

\* What lines 164-172 raise, "" when nothing. db is what sqlite does: "ok",
\* or an sqlite3.Error of sqlite3.connect ("connect:OperationalError"), of
\* the preparation of the INSERT, which reads the schema
\* ("prepare:OperationalError": no such table, a locked or damaged file),
\* or of its execution or the commit ("execute:OperationalError"). The
\* arguments are evaluated before c.execute is called, and c.execute
\* prepares the statement, binds the parameters and then runs it: after
\* the connection json.dumps raises ValueError on an int str() refuses,
\* after the preparation c.execute raises OverflowError on a total that is
\* no 64-bit integer.
insert_raises(items, total, db) ==
    IF db = "connect:OperationalError" THEN "sqlite3.Error"
    ELSE IF json_dumps_raises(items) THEN "ValueError"
    ELSE IF db = "prepare:OperationalError" THEN "sqlite3.Error"
    ELSE IF ~FitsInteger(total) THEN "OverflowError"
    ELSE IF db # "ok" THEN "sqlite3.Error"
    ELSE ""

\* Mutant: the sqlite3.Error is swallowed and the handler carries on.
insert_order_swallow(ords, form, items, total, db) ==
    IF insert_raises(items, total, db) = "sqlite3.Error"
    THEN [err |-> "", orders |-> ords, order_id |-> 0]
    ELSE IF insert_raises(items, total, db) # ""
    THEN [err |-> insert_raises(items, total, db), orders |-> ords, order_id |-> 0]
    ELSE [err |-> "",
          orders |-> Append(ords, order_row(next_rowid(ords), form, items, total)),
          order_id |-> next_rowid(ords)]

\* Lines 163-172: the INSERT, lastrowid and the commit. After an exception
\* the row is not in the table.
insert_order(ords, form, items, total, db) ==
    IF insert_raises(items, total, db) # ""
    THEN [err |-> insert_raises(items, total, db), orders |-> ords, order_id |-> 0]
    ELSE [err |-> "",
          orders |-> Append(ords, order_row(next_rowid(ords), form, items, total)),
          order_id |-> next_rowid(ords)]

\* The characters at which str.splitlines() ends a line: \n, \v, \f, \r,
\* U+001C to U+001E, U+0085, U+2028 and U+2029.
LineBreaks == {10, 11, 12, 13, 28, 29, 30, 133, 8232, 8233}

\* len(s.splitlines()) > 1: text follows a line break ("\r\n" is one).
SeveralLines(s) ==
    \E k \in 1..(Len(s) - 1) :
        /\ s[k] \in LineBreaks
        /\ ~(s[k] = 13 (* "\r" *) /\ s[k + 1] = 10 (* "\n" *) /\ k + 1 = Len(s))

\* s without the line break it ends with, if it ends with one.
WithoutLineBreak(s) ==
    IF Len(s) >= 2 /\ s[Len(s) - 1] = 13 (* "\r" *) /\ s[Len(s)] = 10 (* "\n" *)
    THEN SubSeq(s, 1, Len(s) - 2)
    ELSE IF s # << >> /\ s[Len(s)] \in LineBreaks
    THEN SubSeq(s, 1, Len(s) - 1)
    ELSE s

\* The ASCII letters and digits and the characters !#$%&'*+-/^_`{|}~.
AtomChars ==
    (48..57) \cup (65..90) \cup (97..122)
        \cup {33, 35, 36, 37, 38, 39, 42, 43, 45, 47, 94, 95, 96, 123, 124, 125, 126}

\* Atoms of these characters with single dots between them.
DotAtom(t) ==
    /\ t # << >>
    /\ \A k \in 1..Len(t) : t[k] \in AtomChars \/ t[k] = 46 (* "." *)
    /\ t[1] # 46 (* "." *)
    /\ t[Len(t)] # 46 (* "." *)
    /\ \A k \in 1..(Len(t) - 1) : ~(t[k] = 46 (* "." *) /\ t[k + 1] = 46 (* "." *))

\* local@domain, both dot-atoms, the @ at position k.
AddrSpec(t, k) == DotAtom(SubSeq(t, 1, k - 1)) /\ DotAtom(SubSeq(t, k + 1, Len(t)))

\* A dot-atom, or local@domain and at most a line break after it.
PlainAddress(s) ==
    IF \E k \in 1..Len(s) : s[k] = 64 (* "@" *)
    THEN AddrSpec(WithoutLineBreak(s),
                  CHOOSE k \in 1..Len(s) :
                      s[k] = 64 (* "@" *) /\ \A j \in 1..(k - 1) : s[j] # 64 (* "@" *))
    ELSE DotAtom(s)

\* msg["From"] = v, msg["To"] = v (lines 262, 263) of a str: "ok" or the
\* exception raised. The policy refuses a value of several lines with
\* ValueError; the value is then parsed as a list of addresses. A plain
\* address parses. Of any other value parser is the outcome: the address
\* parser of the email package takes most values, whatever they are, and
\* ends in IndexError, AttributeError, TypeError or ValueError on others
\* ('a@', '<', 'a\n'), as the interpreter's release has it.
header_store_parse(v, parser) ==
    IF SeveralLines(v.s) THEN "ValueError"
    ELSE IF PlainAddress(v.s) THEN "ok"
    ELSE parser

\* Lines 254-275: False without touching the transport when a credential or
\* the recipient is missing; otherwise the message is built and one SMTP
\* attempt made, and an exception of either is caught and printed. Returns
\* the value returned and the steps taken.
send_order_email(env, to_email) ==
    IF ~Truthy(env.EMAIL_USER) \/ ~Truthy(env.EMAIL_PASS) \/ ~Truthy(to_email)
    THEN [ret |-> FALSE, steps |-> <<"notify">>]
    ELSE IF \/ header_store_parse(env.EMAIL_USER, env.parser) # "ok"
            \/ header_store_parse(to_email, env.parser) # "ok"
    THEN [ret |-> FALSE, steps |-> <<"notify", "print:Email send failed">>]
    ELSE IF env.smtp = "ok"
    THEN [ret |-> TRUE, steps |-> <<"notify", "smtp">>]
    ELSE [ret |-> FALSE, steps |-> <<"notify", "smtp", "print:Email send failed">>]

\* Lines 183-194: one provider line per item.
stripe_line_items(items) ==
    [k \in 1..Len(items) |->
        [name |-> items[k].name, unit_amount |-> Mul(items[k].price, Num(100)),
         quantity |-> items[k].qty]]

Result(sess, ords, resp, steps, stripe_req) ==
    [session |-> sess, orders |-> ords, resp |-> resp, steps |-> steps,
     stripe_req |-> stripe_req]

\* Mutant: a payment failure restores the cart and deletes the order.
checkout_persisted_rollback(stripe_secret, sess, ords, order_id, items, form, env) ==
    LET sess2 == session_pop_cart(sess)
        mail == send_order_email(env, form.email)
        steps == <<"validate", "insert", "clear">> \o mail.steps
    IN  IF form.pay_method = PyStr(<<115, 116, 114, 105, 112, 101>> (* "stripe" *)) /\ Truthy(stripe_secret)
        THEN LET req == << [line_items |-> stripe_line_items(items),
                            success_order_id |-> order_id] >>
             IN  IF env.stripe = "ok"
                 THEN Result(sess2, ords, Redirect("stripe", 303, 0, << >>),
                             Append(steps, "stripe"), req)
                 ELSE Result(sess, SubSeq(ords, 1, Len(ords) - 1),
                             Redirect("checkout", 302, 0,
                                      << <<"error", "Payment processing error">> >>),
                             steps \o <<"stripe", "except:StripeError">>, req)
        ELSE Result(sess2, ords, Redirect("success", 302, order_id, << >>),
                    steps, << >>)

\* Mutant: a confirmation that was not sent sends the visitor back to the
\* checkout page.
checkout_persisted_mail_gated(stripe_secret, sess, ords, order_id, items, form, env) ==
    LET sess2 == session_pop_cart(sess)
        mail == send_order_email(env, form.email)
        steps == <<"validate", "insert", "clear">> \o mail.steps
    IN  IF ~mail.ret
        THEN Result(sess2, ords,
                    Redirect("checkout", 302, 0, << <<"error", "Email error">> >>),
                    steps, << >>)
        ELSE IF form.pay_method = PyStr(<<115, 116, 114, 105, 112, 101>> (* "stripe" *)) /\ Truthy(stripe_secret)
        THEN LET req == << [line_items |-> stripe_line_items(items),
                            success_order_id |-> order_id] >>
             IN  IF env.stripe = "ok"
                 THEN Result(sess2, ords, Redirect("stripe", 303, 0, << >>),
                             Append(steps, "stripe"), req)
                 ELSE Result(sess2, ords,
                             Redirect("checkout", 302, 0,
                                      << <<"error", "Payment processing error">> >>),
                             steps \o <<"stripe", "except:StripeError">>, req)
        ELSE Result(sess2, ords, Redirect("success", 302, order_id, << >>),
                    steps, << >>)

\* Mutant: the payment session is requested whether or not a Stripe key
\* is configured.
checkout_persisted_unconfigured(stripe_secret, sess, ords, order_id, items, form, env) ==
    LET sess2 == session_pop_cart(sess)
        mail == send_order_email(env, form.email)
        steps == <<"validate", "insert", "clear">> \o mail.steps
    IN  IF form.pay_method = PyStr(<<115, 116, 114, 105, 112, 101>> (* "stripe" *))
        THEN LET req == << [line_items |-> stripe_line_items(items),
                            success_order_id |-> order_id] >>
             IN  IF env.stripe = "ok"
                 THEN Result(sess2, ords, Redirect("stripe", 303, 0, << >>),
                             Append(steps, "stripe"), req)
                 ELSE Result(sess2, ords,
                             Redirect("checkout", 302, 0,
                                      << <<"error", "Payment processing error">> >>),
                             steps \o <<"stripe", "except:StripeError">>, req)
        ELSE Result(sess2, ords, Redirect("success", 302, order_id, << >>),
                    steps, << >>)

\* Mutant: a confirmation that was not sent is attempted a second time.
checkout_persisted_mail_retry(stripe_secret, sess, ords, order_id, items, form, env) ==
    LET sess2 == session_pop_cart(sess)
        mail == send_order_email(env, form.email)
        steps == <<"validate", "insert", "clear">> \o mail.steps
                     \o (IF mail.ret THEN << >> ELSE mail.steps)
    IN  IF form.pay_method = PyStr(<<115, 116, 114, 105, 112, 101>> (* "stripe" *)) /\ Truthy(stripe_secret)
        THEN LET req == << [line_items |-> stripe_line_items(items),
                            success_order_id |-> order_id] >>
             IN  IF env.stripe = "ok"
                 THEN Result(sess2, ords, Redirect("stripe", 303, 0, << >>),
                             Append(steps, "stripe"), req)
                 ELSE Result(sess2, ords,
                             Redirect("checkout", 302, 0,
                                      << <<"error", "Payment processing error">> >>),
                             steps \o <<"stripe", "except:StripeError">>, req)
        ELSE Result(sess2, ords, Redirect("success", 302, order_id, << >>),
                    steps, << >>)

\* Lines 177-208: what follows a committed insert.
checkout_persisted(stripe_secret, sess, ords, order_id, items, form, env) ==
    LET sess2 == session_pop_cart(sess)
        mail == send_order_email(env, form.email)
        steps == <<"validate", "insert", "clear">> \o mail.steps
    IN  IF form.pay_method = PyStr(<<115, 116, 114, 105, 112, 101>> (* "stripe" *)) /\ Truthy(stripe_secret)
        THEN LET req == << [line_items |-> stripe_line_items(items),
                            success_order_id |-> order_id] >>
             IN  IF env.stripe = "ok"
                 THEN Result(sess2, ords, Redirect("stripe", 303, 0, << >>),
                             Append(steps, "stripe"), req)
                 ELSE Result(sess2, ords,
                             Redirect("checkout", 302, 0,
                                      << <<"error", "Payment processing error">> >>),
                             steps \o <<"stripe", "except:StripeError">>, req)
        ELSE Result(sess2, ords, Redirect("success", 302, order_id, << >>),
                    steps, << >>)

\* Lines 173-208: what follows the insert, ins its outcome. An sqlite3.Error
\* is caught; any other exception leaves the handler.
checkout_inserted(stripe_secret, sess, ins, items, form, env) ==
    IF ins.err = "sqlite3.Error"
    THEN Result(sess, ins.orders,
                Redirect("checkout", 302, 0, << <<"error", "Database error">> >>),
                <<"validate", "insert", "except:sqlite3.Error">>, << >>)
    ELSE IF ins.err # ""
    THEN Result(sess, ins.orders, Abort(ins.err), <<"validate", "insert">>, << >>)
    ELSE checkout_persisted(stripe_secret, sess, ins.orders, ins.order_id,
                            items, form, env)

\* Lines 151-208: the submission, once the line items are known.
checkout_submit(stripe_secret, sess, ords, items, total, form, env) ==
    IF ~Truthy(form.name) \/ ~Truthy(form.phone)
    THEN Result(sess, ords,
                Redirect("checkout", 302, 0,
                         << <<"error", "Please enter name and phone">> >>),
                <<"validate">>, << >>)
    ELSE checkout_inserted(stripe_secret, sess,
                           insert_order(ords, form, items, total, env.db),
                           items, form, env)

\* Lines 138-208: a cart that is not empty.
checkout_cart(P, stripe_secret, sess, ords, method, form, env) ==
    LET d == checkout_items(P, session_get_cart(sess), 1,
                            [exc |-> "", items |-> << >>, total |-> Zero])
    IN  IF d.exc # ""
        THEN Result(sess, ords, Abort(d.exc), << >>, << >>)
        ELSE IF method = "GET"
        THEN Result(sess, ords, Render("checkout.html", d.items, d.total),
                    << >>, << >>)
        ELSE checkout_submit(stripe_secret, sess, ords, d.items, d.total, form, env)

\* Mutant: the empty-cart guard is missing.
checkout_unguarded(P, stripe_secret, sess, ords, method, form, env) ==
    checkout_cart(P, stripe_secret, sess, ords, method, form, env)

\* Lines 131-208.
checkout(P, stripe_secret, sess, ords, method, form, env) ==
    IF session_get_cart(sess) = << >>
    THEN Result(sess, ords,
                Redirect("index", 302, 0, << <<"error", "Your cart is empty">> >>),
                << >>, << >>)
    ELSE checkout_cart(P, stripe_secret, sess, ords, method, form, env)

(* ------------------------------ cart view ----------------------------- *)

\* Lines 100-110: as checkout_items, each item a copy of the product with
\* its qty and subtotal.
RECURSIVE cart_items(_, _, _, _)
cart_items(P, cart, k, acc) ==
    IF k > Len(cart) THEN acc
    ELSE LET g == get_product(P, PyStr(cart[k].pid))
         IN  IF g.exc # "" THEN [acc EXCEPT !.exc = g.exc]
             ELSE IF g.val # << >>
             THEN LET p == g.val[1]
                      p_copy == [id |-> p.id, name |-> p.name, price |-> p.price,
                                 qty |-> cart[k].qty,
                                 subtotal |-> Mul(p.price, cart[k].qty)]
                  IN  cart_items(P, cart, k + 1,
                          [acc EXCEPT !.items = Append(@, p_copy),
                                      !.total = Add(@, p_copy.subtotal)])
             ELSE cart_items(P, cart, k + 1, acc)

cart_view(P, sess) ==
    LET d == cart_items(P, session_get_cart(sess), 1,
                        [exc |-> "", items |-> << >>, total |-> Zero])
    IN  IF d.exc # "" THEN Abort(d.exc) ELSE Render("cart.html", d.items, d.total)

(* -------------------------------- admin ------------------------------- *)

AdminRender(orders_none, ords, denied) ==
    [status |-> 200, to |-> "admin.html", order_id |-> 0, flash |-> << >>,
     items |-> << >>, total |-> Zero,
     orders_none |-> orders_none, orders |-> ords, denied |-> denied]

\* ORDER BY id DESC
Reverse(q) == [k \in 1..Len(q) |-> q[Len(q) + 1 - k]]

\* Lines 232-246: one dict per row, items parsed back from their JSON text.
admin_rows(ords) ==
    [k \in 1..Len(ords) |-> [ords[k] EXCEPT !.items = json_loads(@)]]

\* Mutant: the fallback password opens the listing whatever is configured.
admin_fallback(ords, ADMIN_PASSWORD, p, db) ==
    LET admin_pass == IF ADMIN_PASSWORD = None THEN PyStr(<<97, 100, 109, 105, 110, 49, 50, 51>> (* "admin123" *))
                      ELSE ADMIN_PASSWORD
    IN  IF p # admin_pass /\ p # PyStr(<<97, 100, 109, 105, 110, 49, 50, 51>> (* "admin123" *))
        THEN [resp |-> AdminRender(TRUE, << >>, TRUE), steps |-> << >>]
        ELSE IF db # "ok"
        THEN [resp |-> AdminRender(TRUE, << >>, FALSE), steps |-> <<"select">>]
        ELSE [resp |-> AdminRender(FALSE, admin_rows(Reverse(ords)), FALSE),
              steps |-> <<"select">>]

\* Lines 217-250. ADMIN_PASSWORD is the environment's value or None, p the
\* query argument or None.
admin(ords, ADMIN_PASSWORD, p, db) ==
    LET admin_pass == IF ADMIN_PASSWORD = None THEN PyStr(<<97, 100, 109, 105, 110, 49, 50, 51>> (* "admin123" *))
                      ELSE ADMIN_PASSWORD
    IN  IF p # admin_pass
        THEN [resp |-> AdminRender(TRUE, << >>, TRUE), steps |-> << >>]
        ELSE IF db # "ok"
        THEN [resp |-> AdminRender(TRUE, << >>, FALSE), steps |-> <<"select">>]
        ELSE [resp |-> AdminRender(FALSE, admin_rows(Reverse(ords)), FALSE),
              steps |-> <<"select">>]

(* ------------------------------- inputs ------------------------------- *)

\* Product ids requested from /add-to-cart/<int:pid>.
AddPids == {Num(1), Num(2)}

\* Forms posted to /update-cart, as <<field name, value>> in form order:
\* quantities that are positive, zero, negative, not a number and padded
\* with whitespace; a product id the catalogs hold, one that is not a
\* number, a field that is not a quantity, and a field sent twice; a
\* quantity of one digit more than int() takes, one whose total at the
\* price 25 lies between two doubles (25 * 360287970189641 = 2^53 + 33),
\* and one whose total at the price 10 and at 12 is no 64-bit integer
\* (10 * 922337203685477581 = 2^63 + 2).
Field(pid, value) == << <<113, 116, 121, 45>> (* "qty-" *) \o pid, value >>

UpdateForms ==
    { << >>,
      << Field(<<49>> (* "1" *), <<50>> (* "2" *)) >>,
      << Field(<<50>> (* "2" *), <<49>> (* "1" *)), Field(<<49>> (* "1" *), <<50>> (* "2" *)) >>,
      << Field(<<49>> (* "1" *), <<48>> (* "0" *)), Field(<<50>> (* "2" *), <<32, 9, 49>> (* " \t1" *)) >>,
      << Field(<<49>> (* "1" *), <<45, 51>> (* "-3" *)), Field(<<49>> (* "1" *), <<52>> (* "4" *)) >>,
      << Field(<<50>> (* "2" *), <<120>> (* "x" *)), Field(<<49>> (* "1" *), <<49>> (* "1" *)) >>,
      << Field(<<120>> (* "x" *), <<49>> (* "1" *)) >>,
      << Field(<<49>> (* "1" *), <<49>> (* "1" *)), Field(<<120>> (* "x" *), <<50>> (* "2" *)) >>,
      << <<<<110, 111, 116, 101>> (* "note" *), <<50>> (* "2" *)>>, Field(<<48, 50>> (* "02" *), <<49>> (* "1" *)) >>,
      << Field(<<49>> (* "1" *), [k \in 1..(MaxStrDigits + 1) |-> 57 (* "9" *)]),
         Field(<<50>> (* "2" *), <<51, 54, 48, 50, 56, 55, 57, 55, 48, 49, 56, 57, 54, 52, 49>> (* "360287970189641" *)) >>,
      << Field(<<49>> (* "1" *), <<57, 50, 50, 51, 51, 55, 50, 48, 51, 54, 56, 53, 52, 55, 55, 53, 56, 49>> (* "922337203685477581" *)) >> }

\* The checkout form; a field not submitted reads None. One form gives an
\* address of two lines, which no mail header takes, and one an address
\* that is not a plain one.
BaseForm ==
    [name |-> PyStr(<<65>> (* "A" *)), email |-> PyStr(<<97, 64, 120>> (* "a@x" *)),
     phone |-> PyStr(<<49, 50, 51>> (* "123" *)), address |-> PyStr(<<77, 97, 105, 110>> (* "Main" *)),
     delivery_type |-> PyStr(<<112, 105, 99, 107, 117, 112>> (* "pickup" *)),
     pay_method |-> PyStr(<<99, 111, 100>> (* "cod" *))]

CheckoutForms ==
    { [BaseForm EXCEPT !.email = e, !.pay_method = pm] :
        e \in {None, PyStr(<<97, 64, 120>> (* "a@x" *))},
        pm \in {PyStr(<<99, 111, 100>> (* "cod" *)), PyStr(<<115, 116, 114, 105, 112, 101>> (* "stripe" *))} }
    \cup { [BaseForm EXCEPT !.name = PyStr(<< >>),
                            !.pay_method = PyStr(<<115, 116, 114, 105, 112, 101>> (* "stripe" *))],
           [BaseForm EXCEPT !.phone = None],
           [BaseForm EXCEPT !.email = PyStr(<<97, 10, 98>> (* "a\nb" *))],
           [BaseForm EXCEPT !.email = PyStr(<<97, 64>> (* "a@" *))] }

\* What the environment of one checkout request does: the sqlite outcome,
\* the mail credentials read by os.getenv, what the address parser does
\* with a header value that is not a plain address, the outcome of the SMTP
\* exchange and of the Stripe call. Outcomes of calls that cannot be reached
\* (after a failed insert, without credentials, after a header that was
\* refused) are not varied.
CheckoutEnvs ==
    { e \in [db : {"ok", "connect:OperationalError", "prepare:OperationalError",
                   "execute:OperationalError"},
             EMAIL_USER : {None, PyStr(<<117>> (* "u" *))},
             EMAIL_PASS : {None, PyStr(<<112>> (* "p" *))},
             parser : {"ok", "IndexError"},
             smtp : {"ok", "SMTPException"},
             stripe : {"ok", "StripeError"}] :
        /\ (e.EMAIL_USER = None \/ e.EMAIL_PASS = None) =>
              e.parser = "ok" /\ e.smtp = "ok"
        /\ e.EMAIL_USER = None => e.EMAIL_PASS = PyStr(<<112>> (* "p" *))
        /\ e.parser # "ok" => e.smtp = "ok"
        /\ e.db # "ok" =>
              e.EMAIL_USER = PyStr(<<117>> (* "u" *)) /\ e.EMAIL_PASS = PyStr(<<112>> (* "p" *))
              /\ e.parser = "ok" /\ e.smtp = "ok" /\ e.stripe = "ok" }

\* Whether a request with this form can reach the calls whose outcome env
\* varies: a form that fails validation reaches none; Stripe is asked for
\* the method "stripe" only; without a recipient no message is built; the
\* address parser decides for a recipient that is no plain address only
\* (the sender of these environments is one); a recipient of several lines
\* is refused before the SMTP exchange.
Reaches(form, env) ==
    /\ (~Truthy(form.name) \/ ~Truthy(form.phone)) =>
          /\ env.db = "ok" /\ env.stripe = "ok" /\ env.smtp = "ok" /\ env.parser = "ok"
          /\ Truthy(env.EMAIL_USER) /\ Truthy(env.EMAIL_PASS)
    /\ form.pay_method # PyStr(<<115, 116, 114, 105, 112, 101>> (* "stripe" *)) => env.stripe = "ok"
    /\ ~Truthy(form.email) =>
          /\ env.smtp = "ok" /\ env.parser = "ok"
          /\ Truthy(env.EMAIL_USER) /\ Truthy(env.EMAIL_PASS)
    /\ (SeveralLines(form.email.s) \/ PlainAddress(form.email.s)) => env.parser = "ok"
    /\ SeveralLines(form.email.s) => env.smtp = "ok"

\* The requests posted to /checkout: a form and what the environment does,
\* the pairs of CheckoutForms \X CheckoutEnvs that Reaches admits.
CheckoutRequests ==
    UNION { IF Reaches(q[1], q[2]) THEN {q} ELSE {}
            : q \in CheckoutForms \X CheckoutEnvs }

\* The requests as lines 131-172 tell them apart: one per form and sqlite
\* outcome. What the mail and Stripe do is consulted after the commit only.
CheckoutInserts ==
    UNION { IF q[2] = (CHOOSE e \in CheckoutEnvs :
                          Reaches(q[1], e) /\ e.db = q[2].db)
            THEN {q} ELSE {}
            : q \in CheckoutRequests }

StripeSecrets == {PyStr(<< >>), PyStr(<<115, 107, 95, 116, 101, 115, 116>> (* "sk_test" *))}

AdminPasswords == {None, PyStr(<<115, 51, 99, 114, 101, 116>> (* "s3cret" *))}

AdminArgs ==
    { None, PyStr(<<97, 100, 109, 105, 110, 49, 50, 51>> (* "admin123" *)),
      PyStr(<<115, 51, 99, 114, 101, 116>> (* "s3cret" *)) }

(* ------------------------------- actions ------------------------------ *)

\* The requests of one session that the threaded server of app.run (line
\* 287) works on at once: three.
Slots == {1, 2, 3}

\* The request last served: the handler, the checkout form it was sent (a
\* request without one reads None in every field), its response, the steps
\* it took with the exceptions caught and lines printed on the way, and the
\* payment-session request it made, if any.
NoForm ==
    [name |-> None, email |-> None, phone |-> None, address |-> None,
     delivery_type |-> None, pay_method |-> None]

\* A request in flight: its handler, the copy of the session that was
\* loaded from the session store when the request started and, once a
\* checkout submission has run to its commit, its form, the table as it
\* found it and its result.
Idle ==
    [pc |-> "idle", op |-> "", sess |-> NoCart, form |-> NoForm,
     ords |-> << >>, res |-> << >>]

Last(op, form, resp, steps, stripe_req) ==
    [op |-> op, form |-> form, resp |-> resp, steps |-> steps,
     stripe_req |-> stripe_req]

\* Lines 12-63 at process start: configuration and catalog are loaded;
\* orders.db is empty and no session exists.
Init ==
    /\ PRODUCTS \in Catalogs
    /\ STRIPE_SECRET \in StripeSecrets
    /\ session = NoCart
    /\ orders = << >>
    /\ last = Last("load", NoForm, Render("", << >>, Zero), << >>, << >>)
    /\ served = 0
    /\ inflight = [r \in Slots |-> Idle]

\* One more request is taken.
Taken ==
    /\ served < MaxRequests
    /\ served' = served + 1

\* One more request of the session, served from start to response while no
\* submission of the session waits to answer.
Serve ==
    /\ Taken
    /\ inflight[1].pc = "idle"
    /\ UNCHANGED inflight

\* Lines 12-63 at a later process start: the table and the session files
\* are kept (CREATE TABLE IF NOT EXISTS, filesystem sessions).
Load ==
    /\ Serve
    /\ PRODUCTS' \in Catalogs
    /\ STRIPE_SECRET' \in StripeSecrets
    /\ last' = Last("load", NoForm, Render("", << >>, Zero), << >>, << >>)
    /\ UNCHANGED <<session, orders>>

AddToCart ==
    \E pid \in AddPids :
        LET r == add_to_cart(PRODUCTS, session, pid)
        IN  /\ Serve
            /\ session' = r.session
            /\ last' = Last("add_to_cart", NoForm, r.resp, << >>, << >>)
            /\ UNCHANGED <<PRODUCTS, STRIPE_SECRET, orders>>

UpdateCart ==
    \E data \in UpdateForms :
        LET r == update_cart(session, data)
        IN  /\ Serve
            /\ session' = r.session
            /\ last' = Last("update_cart", NoForm, r.resp, << >>, << >>)
            /\ UNCHANGED <<PRODUCTS, STRIPE_SECRET, orders>>

CartView ==
    /\ Serve
    /\ last' = Last("cart", NoForm, cart_view(PRODUCTS, session), << >>, << >>)
    /\ UNCHANGED <<PRODUCTS, STRIPE_SECRET, session, orders>>

CheckoutGet ==
    LET r == checkout(PRODUCTS, STRIPE_SECRET, session, orders, "GET",
                      NoForm, CHOOSE e \in CheckoutEnvs : TRUE)
    IN  /\ Serve
        /\ session' = r.session
        /\ orders' = r.orders
        /\ last' = Last("checkout_get", NoForm, r.resp, r.steps, r.stripe_req)
        /\ UNCHANGED <<PRODUCTS, STRIPE_SECRET>>

\* Lines 131-172 of checkout served with POST. A submission that commits
\* no row answers in the same step: nothing it did shows before. One that
\* commits (line 171) has its row in the table from then on, and what
\* follows (lines 177-208) is CheckoutRespond.
CheckoutPost ==
    /\ Taken
    /\ inflight[1].pc = "idle"
    /\ \E q \in CheckoutInserts :
        LET r == checkout(PRODUCTS, STRIPE_SECRET, session, orders, "POST", q[1], q[2])
        IN  /\ orders' = r.orders
            /\ IF r.orders = orders
               THEN /\ session' = r.session
                    /\ last' = Last("checkout_post", q[1], r.resp, r.steps, r.stripe_req)
                    /\ UNCHANGED inflight
               ELSE /\ inflight' = [inflight EXCEPT ![1] =
                                        [Idle EXCEPT !.pc = "handled",
                                                     !.op = "checkout_post",
                                                     !.sess = session,
                                                     !.form = q[1],
                                                     !.ords = orders]]
                    /\ UNCHANGED <<session, last>>
            /\ UNCHANGED <<PRODUCTS, STRIPE_SECRET>>

\* Lines 177-208 of a submission that committed its row: the cart is
\* popped, the mail is sent (lines 254-275) and Stripe asked (line 195),
\* each with the outcome the environment gives it then, and the response
\* leaves. The table is as the commit left it.
CheckoutRespond ==
    /\ inflight[1].pc = "handled"
    /\ \E q \in CheckoutRequests :
        LET r == checkout(PRODUCTS, STRIPE_SECRET, session, inflight[1].ords,
                          "POST", q[1], q[2])
        IN  /\ q[1] = inflight[1].form
            /\ q[2].db = "ok"
            /\ session' = r.session
            /\ last' = Last("checkout_post", q[1], r.resp, r.steps, r.stripe_req)
    /\ inflight' = [inflight EXCEPT ![1] = Idle]
    /\ UNCHANGED <<PRODUCTS, STRIPE_SECRET, orders, served>>

Admin ==
    \E pw \in AdminPasswords, p \in AdminArgs, db \in {"ok", "OperationalError"} :
        LET r == admin(orders, pw, p, db)
        IN  /\ Taken
            /\ last' = Last("admin", NoForm, r.resp, r.steps, << >>)
            /\ UNCHANGED <<PRODUCTS, STRIPE_SECRET, session, orders, inflight>>

Next ==
    \/ Load
    \/ AddToCart
    \/ UpdateCart
    \/ CartView
    \/ CheckoutGet
    \/ CheckoutPost
    \/ CheckoutRespond
    \/ Admin

Spec == Init /\ [][Next]_vars

(* ------------------------- concurrent requests ------------------------ *)

\* Handlers of the requests served at once: those that read or write the
\* session (lines 91-94, 100, 127, 133-135, 177).
ConcOps == {"add_to_cart", "update_cart", "cart", "checkout_get", "checkout_post"}

\* What they are sent: a product id; quantities that set a cart, empty it,
\* or store a key int() rejects; a checkout form with and without a name;
\* an environment in which every call succeeds and one in which the insert
\* fails.
ConcAddPids == {Num(1)}

ConcUpdateForms ==
    { << >>,
      << Field(<<49>> (* "1" *), <<50>> (* "2" *)) >>,
      << Field(<<120>> (* "x" *), <<49>> (* "1" *)) >> }

ConcForms == { BaseForm, [BaseForm EXCEPT !.name = PyStr(<< >>)] }

ConcEnvs ==
    { e \in CheckoutEnvs :
        /\ e.db \in {"ok", "execute:OperationalError"}
        /\ e.EMAIL_USER = PyStr(<<117>> (* "u" *)) /\ e.EMAIL_PASS = PyStr(<<112>> (* "p" *))
        /\ e.parser = "ok" /\ e.smtp = "ok" /\ e.stripe = "ok" }

\* The session a handler reads and writes (session.get, session[...],
\* session.pop): the copy its request loaded when it started, not the
\* session as stored when the handler runs.
request_session(copy, stored) == copy

\* A request starts, in the first slot that is free: its copy of the
\* session is loaded from the store.
Open(r) ==
    \E op \in ConcOps :
        /\ inflight[r].pc = "idle"
        /\ \A q \in Slots : q < r => inflight[q].pc # "idle"
        /\ served < MaxConcRequests
        /\ served' = served + 1
        /\ inflight' = [inflight EXCEPT ![r] = [Idle EXCEPT !.pc = "open", !.op = op,
                                                            !.sess = session]]
        /\ UNCHANGED <<PRODUCTS, STRIPE_SECRET, session, orders, last>>

\* Whether the handler wrote to the session of its request: add_to_cart
\* flashes on either path (lines 89, 94), update_cart assigns the cart
\* (line 127), checkout flashes (lines 135, 160, 174, 205) or pops a cart
\* that is there (line 177); cart only reads.
session_modified(op, loaded, after, resp) ==
    \/ op \in {"add_to_cart", "update_cart"}
    \/ resp.flash # << >>
    \/ after # loaded

\* The sessions the store may hold once a response has left: a request
\* that wrote to its session stores its copy over whatever is stored, the
\* last write standing; one that only read, or that ended in an exception
\* (with the debugger of line 287 the exception leaves the application
\* before the session is saved), stores its copy or stores nothing.
save_session(stored, after, resp, modified) ==
    IF modified /\ resp.status # 500 THEN {after} ELSE {stored, after}

\* The response of request r leaves: the session is stored and the
\* request is over.
Respond(r, op, form, res) ==
    /\ session' \in save_session(session, res.session, res.resp,
                                 session_modified(op, inflight[r].sess,
                                                  res.session, res.resp))
    /\ last' = Last(op, form, res.resp, res.steps, res.stripe_req)
    /\ inflight' = [inflight EXCEPT ![r] = Idle]
    /\ UNCHANGED <<PRODUCTS, STRIPE_SECRET, served>>

\* A handler that reads and writes nothing but the session of its request
\* is one step with its response.
ConcAddToCart(r) ==
    \E pid \in ConcAddPids :
        LET h == add_to_cart(PRODUCTS, request_session(inflight[r].sess, session), pid)
        IN  /\ inflight[r].pc = "open"
            /\ inflight[r].op = "add_to_cart"
            /\ Respond(r, "add_to_cart", NoForm,
                       Result(h.session, orders, h.resp, << >>, << >>))
            /\ UNCHANGED orders

ConcUpdateCart(r) ==
    \E data \in ConcUpdateForms :
        LET h == update_cart(request_session(inflight[r].sess, session), data)
        IN  /\ inflight[r].pc = "open"
            /\ inflight[r].op = "update_cart"
            /\ Respond(r, "update_cart", NoForm,
                       Result(h.session, orders, h.resp, << >>, << >>))
            /\ UNCHANGED orders

ConcCartView(r) ==
    LET sess == request_session(inflight[r].sess, session)
    IN  /\ inflight[r].pc = "open"
        /\ inflight[r].op = "cart"
        /\ Respond(r, "cart", NoForm,
                   Result(sess, orders, cart_view(PRODUCTS, sess), << >>, << >>))
        /\ UNCHANGED orders

\* checkout served with GET ends at line 136 or at line 149.
ConcCheckoutGet(r) ==
    LET h == checkout(PRODUCTS, STRIPE_SECRET,
                      request_session(inflight[r].sess, session), orders, "GET",
                      NoForm, CHOOSE e \in CheckoutEnvs : TRUE)
    IN  /\ inflight[r].pc = "open"
        /\ inflight[r].op = "checkout_get"
        /\ Respond(r, "checkout_get", NoForm, h)
        /\ UNCHANGED orders

\* Lines 131-172 of checkout served with POST: the cart is read from the
\* session of the request, and the commit of line 171 puts the row in the
\* table, where every request sees it from then on. The mail (line 179)
\* and the request to Stripe (line 195) follow while other requests are
\* served; they read and write nothing that another request does, so
\* their outcomes are drawn here. The session is not stored before the
\* response leaves.
ConcCheckoutPost(r) ==
    \E form \in ConcForms, env \in ConcEnvs :
        LET h == checkout(PRODUCTS, STRIPE_SECRET,
                          request_session(inflight[r].sess, session), orders,
                          "POST", form, env)
        IN  /\ inflight[r].pc = "open"
            /\ inflight[r].op = "checkout_post"
            /\ orders' = h.orders
            /\ inflight' = [inflight EXCEPT ![r] =
                                [@ EXCEPT !.pc = "handled", !.form = form,
                                          !.ords = orders, !.res = <<h>>]]
            /\ UNCHANGED <<PRODUCTS, STRIPE_SECRET, session, last, served>>

\* Lines 173-208 of checkout are over and its response leaves.
ConcCheckoutRespond(r) ==
    /\ inflight[r].pc = "handled"
    /\ Respond(r, inflight[r].op, inflight[r].form, inflight[r].res[1])
    /\ UNCHANGED orders

NextConc ==
    \E r \in Slots :
        \/ Open(r)
        \/ ConcAddToCart(r)
        \/ ConcUpdateCart(r)
        \/ ConcCartView(r)
        \/ ConcCheckoutGet(r)
        \/ ConcCheckoutPost(r)
        \/ ConcCheckoutRespond(r)

SpecConc == Init /\ [][NextConc]_vars

(* ------------------------------ properties ---------------------------- *)

Cart == session_get_cart(session)

Contains(q, x) == \E k \in 1..Len(q) : q[k] = x

Missing(v) == v = None \/ v = PyStr(<< >>)

Flashed(resp, category, message) == resp.flash = << <<category, message>> >>

\* This step answers a checkout submission.
Submitted == last'.op = "checkout_post" /\ inflight'[1].pc = "idle"

\* The table as the request that this step answers found it: for a
\* submission that committed a row, the table before the commit.
OrdersFound == IF inflight[1].pc = "handled" THEN inflight[1].ords ELSE orders

\* The request that this step answers inserted one row and left the earlier
\* rows as they were.
Persisted ==
    /\ Len(orders') = Len(OrdersFound) + 1
    /\ SubSeq(orders', 1, Len(OrdersFound)) = OrdersFound

\* This step inserts one row and leaves the earlier rows as they were.
RowAdded ==
    /\ Len(orders') = Len(orders) + 1
    /\ SubSeq(orders', 1, Len(orders)) = orders

LastOrder == orders[Len(orders)]

\* A submission has committed its row and not yet answered: the row is in
\* the table and the operator was shown it, while the session still holds
\* the cart.
RowListedBeforeAnswer ==
    /\ inflight[1].pc = "handled"
    /\ Len(orders) = 1
    /\ inflight[1].ords = << >>
    /\ last.op = "admin"
    /\ Len(last.resp.orders) = 1
    /\ last.resp.orders[1].id = orders[1].id
    /\ Cart # << >>

\* C1: a checkout submission that inserts no order leaves the session, and
\* with it the cart, exactly as it was, whatever the form and whatever
\* sqlite, the mail transport and the payment provider do.
C1_NoClearWithoutOrder ==
    [][ (Submitted /\ orders' = OrdersFound) => session' = session ]_vars

\* A submission whose insert failed has just been served, from a cart that
\* is still there.
C1_Witness ==
    /\ last.op = "checkout_post"
    /\ last.steps = <<"validate", "insert", "except:sqlite3.Error">>
    /\ orders = << >>
    /\ Cart # << >>

\* C2: a checkout submission that inserts an order ends with no cart in the
\* session, for every notification and payment outcome.
C2_ClearedOncePersisted ==
    [][ (Submitted /\ orders' # OrdersFound) =>
            ("cart" \notin session'.keys /\ Cart' = << >>) ]_vars

\* An order was inserted by a submission whose mail failed and whose
\* payment session failed; the cart is gone.
C2_Witness ==
    /\ last.op = "checkout_post"
    /\ Contains(last.steps, "print:Email send failed")
    /\ Contains(last.steps, "except:StripeError")
    /\ orders # << >>
    /\ Cart = << >>

\* C3: a submission from a non-empty cart without name or without phone
\* inserts no order, leaves the cart as it was, attempts neither the
\* notification nor the payment, and redirects to the checkout page.
C3_ValidationFailure ==
    [][ (/\ Submitted
         /\ Cart # << >>
         /\ (Missing(last'.form.name) \/ Missing(last'.form.phone))) =>
            /\ orders' = OrdersFound
            /\ session' = session
            /\ ~Contains(last'.steps, "notify")
            /\ ~Contains(last'.steps, "stripe")
            /\ last'.resp.status = 302
            /\ last'.resp.to = "checkout" ]_vars

\* Every key of the cart is a string int() accepts.
CartKeysParse == \A k \in 1..Len(Cart) : ParseInt(Cart[k].pid).exc = ""

\* What holds of the validation failure: the same, for the carts whose keys
\* int() accepts and for any cart while the catalog is empty, the cases in
\* which get_product cannot raise.
ValidationFailure_ParsableCart ==
    [][ (/\ Submitted
         /\ Cart # << >>
         /\ (CartKeysParse \/ PRODUCTS = << >>)
         /\ (Missing(last'.form.name) \/ Missing(last'.form.phone))) =>
            /\ orders' = OrdersFound
            /\ session' = session
            /\ last'.steps = <<"validate">>
            /\ last'.resp.status = 302
            /\ last'.resp.to = "checkout"
            /\ Flashed(last'.resp, "error", "Please enter name and phone") ]_vars

\* C4: a checkout request, GET or POST, made while the cart is empty or
\* absent is answered by the empty-cart redirect at once: no order, the
\* session untouched, no notification, no payment, whatever the form.
C4_EmptyCart ==
    [][ (last'.op \in {"checkout_get", "checkout_post"} /\ Cart = << >>) =>
            /\ orders' = OrdersFound
            /\ session' = session
            /\ last'.steps = << >>
            /\ last'.stripe_req = << >>
            /\ last'.resp.status = 302
            /\ last'.resp.to = "index"
            /\ Flashed(last'.resp, "error", "Your cart is empty") ]_vars

\* A complete and valid form was answered with the empty-cart redirect
\* while the session holds an empty cart dict.
C4_Witness ==
    /\ last.op = "checkout_post"
    /\ last.form = BaseForm
    /\ Flashed(last.resp, "error", "Your cart is empty")
    /\ last.steps = << >>
    /\ "cart" \in session.keys
    /\ Cart = << >>

\* This step serves a submission whose insert failed: sqlite raised, or the
\* total was refused as no 64-bit integer when it was bound.
InsertFailed ==
    /\ Submitted
    /\ \/ Contains(last'.steps, "except:sqlite3.Error")
       \/ last'.steps = <<"validate", "insert">> /\ last'.resp.to = "OverflowError"

\* C5: when the insert of a valid submission fails with a storage error, no
\* row is added, the cart stays, neither notification nor payment is
\* attempted, and the visitor is redirected to the checkout page with an
\* error message.
C5_PersistFailure ==
    [][ InsertFailed =>
            /\ ~Missing(last'.form.name) /\ ~Missing(last'.form.phone)
            /\ orders' = OrdersFound
            /\ session' = session
            /\ Cart' # << >>
            /\ ~Contains(last'.steps, "clear")
            /\ ~Contains(last'.steps, "notify")
            /\ ~Contains(last'.steps, "stripe")
            /\ last'.stripe_req = << >>
            /\ last'.resp.status = 302
            /\ last'.resp.to = "checkout"
            /\ Flashed(last'.resp, "error", "Database error") ]_vars

\* What holds of a failed insert: the same, when what is raised is an
\* sqlite3.Error; and whatever is raised, no row is added, the cart stays
\* and neither notification nor payment is attempted.
PersistFailure_Sqlite3Error ==
    [][ InsertFailed =>
            /\ ~Missing(last'.form.name) /\ ~Missing(last'.form.phone)
            /\ orders' = OrdersFound
            /\ session' = session
            /\ Cart' # << >>
            /\ ~Contains(last'.steps, "clear")
            /\ ~Contains(last'.steps, "notify")
            /\ ~Contains(last'.steps, "stripe")
            /\ last'.stripe_req = << >>
            /\ Contains(last'.steps, "except:sqlite3.Error") =>
                  /\ last'.resp.status = 302
                  /\ last'.resp.to = "checkout"
                  /\ Flashed(last'.resp, "error", "Database error") ]_vars

\* After an order was stored, a later submission failed in the insert with
\* an sqlite3.Error: the table still holds the one order and the cart is
\* still there.
PersistFailed ==
    /\ last.op = "checkout_post"
    /\ Contains(last.steps, "except:sqlite3.Error")
    /\ Flashed(last.resp, "error", "Database error")
    /\ Len(orders) = 1
    /\ Cart # << >>

\* A valid submission ended in the OverflowError of the insert.
InsertOverflow ==
    /\ last.op = "checkout_post"
    /\ last.steps = <<"validate", "insert">>
    /\ last.resp.status = 500
    /\ last.resp.to = "OverflowError"
    /\ Cart # << >>

\* This step serves a submission that asked for external payment, with the
\* payment capability configured, and whose provider call raised.
PaymentFailed ==
    /\ Submitted
    /\ last'.form.pay_method = PyStr(<<115, 116, 114, 105, 112, 101>> (* "stripe" *))
    /\ Truthy(STRIPE_SECRET)
    /\ Contains(last'.steps, "except:StripeError")

\* C6: when the payment session fails after the insert, the order stays in
\* the table with paid = 0, the earlier rows are untouched, the cart stays
\* cleared, and the visitor is redirected to the checkout page with an error.
C6_PaymentFailureKeepsOrder ==
    [][ PaymentFailed =>
            /\ Persisted
            /\ LastOrder'.paid = 0
            /\ LastOrder'.id = last'.stripe_req[1].success_order_id
            /\ Cart' = << >>
            /\ last'.resp.status = 302
            /\ last'.resp.to = "checkout"
            /\ Flashed(last'.resp, "error", "Payment processing error") ]_vars

\* A payment failure has just been answered: the order is in the table,
\* unpaid, and the cart is gone.
C6_Witness ==
    /\ last.op = "checkout_post"
    /\ Flashed(last.resp, "error", "Payment processing error")
    /\ last.stripe_req # << >>
    /\ orders # << >>
    /\ LastOrder.id = last.stripe_req[1].success_order_id
    /\ LastOrder.paid = 0
    /\ Cart = << >>

\* C7: when the payment-provider call raises after the insert, the response
\* returned to the visitor carries the id of the order just inserted.
C7_PaymentFailureReferencesOrder ==
    [][ PaymentFailed => last'.resp.order_id = LastOrder'.id ]_vars

\* The result of a checkout submission made in the current state.
Post(form, env) ==
    checkout(PRODUCTS, STRIPE_SECRET, session, orders, "POST", form, env)

\* What the visitor and the shop keep of a submission: the table, the
\* session and the response.
Outcome(r) == <<r.orders, r.session, r.resp>>

\* The environment that differs from env at most in that the mail
\* credentials are set, the address parser takes the header values and the
\* SMTP exchange succeeds.
MailSent(env) ==
    [env EXCEPT !.EMAIL_USER = PyStr(<<117>> (* "u" *)), !.EMAIL_PASS = PyStr(<<112>> (* "p" *)),
                !.parser = "ok", !.smtp = "ok"]

\* The submissions by form and by the environment in which the mail is
\* sent: <<form, that environment, the other environments that differ from
\* it in the mail only>>.
MailGroups ==
    { <<c[1], MailSent(c[2]),
        UNION { IF /\ q[1] = c[1]
                   /\ q[2] # MailSent(c[2])
                   /\ MailSent(q[2]) = MailSent(c[2])
                THEN {q[2]} ELSE {}
                : q \in CheckoutRequests }>> : c \in CheckoutRequests }

\* C8: a submission ends with the same table, the same session and the same
\* response as the submission of the same form from the same state, with
\* the same sqlite and payment-provider outcomes, whose confirmation mail is
\* sent, be its own mail skipped for want of a credential or a recipient,
\* failed or sent; and a failed SMTP exchange leaves the row just inserted
\* in the table.
C8_NotificationIndependence ==
    \A g \in MailGroups :
        LET mailed == Outcome(Post(g[1], g[2]))
        IN  \A env \in g[3] :
                LET r == Post(g[1], env)
                IN  /\ Outcome(r) = mailed
                    /\ Contains(r.steps, "print:Email send failed") =>
                          /\ Len(r.orders) = Len(orders) + 1
                          /\ SubSeq(r.orders, 1, Len(orders)) = orders

\* A submission whose SMTP exchange failed was answered with the
\* confirmation redirect of the order it inserted.
C8_Witness ==
    /\ last.op = "checkout_post"
    /\ Contains(last.steps, "print:Email send failed")
    /\ last.resp.to = "success"
    /\ orders # << >>
    /\ last.resp.order_id = LastOrder.id

\* C9: no step removes a row of the orders table or changes one (items,
\* total, paid and every other column), and every row present after a step
\* has paid = 0.
C9_OrdersImmutable ==
    [][ /\ Len(orders') >= Len(orders)
        /\ SubSeq(orders', 1, Len(orders)) = orders
        /\ \A k \in 1..Len(orders') : orders'[k].paid = 0 ]_vars

\* An order priced from one catalog is in the table, unchanged, after the
\* process restarted with another price for its product.
C9_Witness ==
    /\ last.op = "load"
    /\ PRODUCTS = CatalogB
    /\ Len(orders) = 1
    /\ orders[1].total = PyFloat(Num(10))
    /\ orders[1].paid = 0
    /\ json_loads(orders[1].items)[1].price = Num(10)

\* The cart entry's key is the id of a product of the catalog.
Resolves(P, e) ==
    /\ ParseInt(e.pid).exc = ""
    /\ \E k \in 1..Len(P) : P[k].id = ParseInt(e.pid).val

ProductOf(P, e) == P[CHOOSE k \in 1..Len(P) : P[k].id = ParseInt(e.pid).val]

\* One line item per resolving cart entry, in cart order, with the
\* catalog's name and price and the cart's quantity.
ExpectedItems(P, cart) ==
    LET Test(e) == Resolves(P, e)
        sel == SelectSeq(cart, Test)
    IN  [k \in 1..Len(sel) |->
            [id |-> ProductOf(P, sel[k]).id, name |-> ProductOf(P, sel[k]).name,
             price |-> ProductOf(P, sel[k]).price, qty |-> sel[k].qty]]

RECURSIVE SumSubtotals(_)
SumSubtotals(items) ==
    IF items = << >> THEN Zero
    ELSE Add(Mul(Head(items).price, Head(items).qty), SumSubtotals(Tail(items)))

\* C10: a submission that persists inserts exactly one row; the row's items
\* are the line items of the cart at submission time under the catalog of
\* that moment, its total is equal to the sum of price * qty over them, and
\* its paid flag is 0.
C10_OrderSnapshot ==
    [][ (Submitted /\ orders' # OrdersFound) =>
            /\ Persisted
            /\ json_loads(LastOrder'.items) = ExpectedItems(PRODUCTS, Cart)
            /\ LastOrder'.total = PyFloat(SumSubtotals(ExpectedItems(PRODUCTS, Cart)))
            /\ LastOrder'.paid = 0 ]_vars

\* What holds of the row: the same, with the total the double nearest to
\* the sum, which is the sum when that is below 2^53.
OrderSnapshot_NearestDouble ==
    [][ (Submitted /\ orders' # OrdersFound) =>
            /\ Persisted
            /\ json_loads(LastOrder'.items) = ExpectedItems(PRODUCTS, Cart)
            /\ LastOrder'.total = Real(SumSubtotals(ExpectedItems(PRODUCTS, Cart)))
            /\ MagLess(SumSubtotals(ExpectedItems(PRODUCTS, Cart)).mag, PowersOfTwo[53]) =>
                  LastOrder'.total = PyFloat(SumSubtotals(ExpectedItems(PRODUCTS, Cart)))
            /\ LastOrder'.paid = 0 ]_vars

\* The spec's example: the cart {2: 1, 1: 2} under prices 10 and 25 was
\* checked out into an order of two items and total 45.
OrderOfTotal45 ==
    /\ last.op = "checkout_post"
    /\ last.resp.to = "success"
    /\ orders # << >>
    /\ last.resp.order_id = LastOrder.id
    /\ Len(json_loads(LastOrder.items)) = 2
    /\ json_loads(LastOrder.items)[1].id = Num(2)
    /\ json_loads(LastOrder.items)[2].qty = Num(2)
    /\ LastOrder.total = PyFloat(Num(45))

\* An order was stored whose total is not the sum of price * qty over its
\* items.
TotalRounded ==
    /\ last.op = "checkout_post"
    /\ orders # << >>
    /\ last.resp.order_id = LastOrder.id
    /\ LastOrder.total # PyFloat(SumSubtotals(json_loads(LastOrder.items)))

\* The items the cart page shows: the line items with their subtotals.
WithSubtotals(items) ==
    [k \in 1..Len(items) |->
        [id |-> items[k].id, name |-> items[k].name, price |-> items[k].price,
         qty |-> items[k].qty, subtotal |-> Mul(items[k].price, items[k].qty)]]

\* This step derives the line items of a non-empty cart: the cart page, the
\* checkout page or a checkout submission.
DerivesItems ==
    \/ last'.op = "cart"
    \/ last'.op \in {"checkout_get", "checkout_post"} /\ Cart # << >>

\* The derivation of this step raised: the request ended in an exception
\* before any step past the line-item loop.
DerivationRaised == last'.resp.status = 500 /\ last'.steps = << >>

\* C11: whatever the cart, deriving its line items succeeds: the cart page
\* and the checkout page are rendered with one item per resolving entry,
\* subtotal price * qty and total their sum, the entries that do not
\* resolve dropped, and no derivation raises.
C11_LineItemsDerived ==
    [][ /\ DerivesItems => ~DerivationRaised
        /\ last'.op = "cart" =>
              /\ last'.resp.to = "cart.html"
              /\ last'.resp.items = WithSubtotals(ExpectedItems(PRODUCTS, Cart))
              /\ last'.resp.total = SumSubtotals(ExpectedItems(PRODUCTS, Cart))
        /\ (last'.op = "checkout_get" /\ Cart # << >>) =>
              /\ last'.resp.to = "checkout.html"
              /\ last'.resp.items = ExpectedItems(PRODUCTS, Cart)
              /\ last'.resp.total = SumSubtotals(ExpectedItems(PRODUCTS, Cart)) ]_vars

\* What holds of the derivation: the same, for the carts whose keys int()
\* accepts and for any cart while the catalog is empty.
LineItemsDerived_ParsableCart ==
    [][ (CartKeysParse \/ PRODUCTS = << >>) =>
        /\ DerivesItems => ~DerivationRaised
        /\ last'.op = "cart" =>
              /\ last'.resp.to = "cart.html"
              /\ last'.resp.items = WithSubtotals(ExpectedItems(PRODUCTS, Cart))
              /\ last'.resp.total = SumSubtotals(ExpectedItems(PRODUCTS, Cart))
        /\ (last'.op = "checkout_get" /\ Cart # << >>) =>
              /\ last'.resp.to = "checkout.html"
              /\ last'.resp.items = ExpectedItems(PRODUCTS, Cart)
              /\ last'.resp.total = SumSubtotals(ExpectedItems(PRODUCTS, Cart)) ]_vars

\* The cart page raised while the catalog had products.
LineItemsAbort ==
    /\ last.op = "cart"
    /\ last.resp.status = 500
    /\ last.resp.to = "ValueError"
    /\ PRODUCTS # << >>

\* An int: a sign and digits, none of them a zero at the front.
IsInt(n) ==
    /\ DOMAIN n = {"neg", "mag"}
    /\ n.neg \in BOOLEAN
    /\ n.mag \in Seq(0..9)
    /\ n.mag # << >> => n.mag[1] # 0
    /\ n.neg => n.mag # << >>

\* C12: in every reachable state every quantity stored in the session cart
\* is an integer of at least 1.
C12_QuantitiesPositive ==
    \A k \in 1..Len(Cart) : IsInt(Cart[k].qty) /\ ~Less(Cart[k].qty, Num(1))

\* The cart was set from the fields qty-1=0 and qty-2=" \t1": the entry of
\* quantity 0 is not stored, the other is.
C12_Witness ==
    /\ last.op = "update_cart"
    /\ Cart = << [pid |-> <<50>> (* "2" *), qty |-> Num(1)] >>

\* The product id is that of a product of the catalog.
InCatalog(P, pid) == \E k \in 1..Len(P) : P[k].id = pid

Entries(cart) == { cart[k] : k \in 1..Len(cart) }

\* The quantity a cart holds under a key, 0 when it holds none.
QtyOf(cart, key) ==
    IF \E e \in Entries(cart) : e.pid = key
    THEN (CHOOSE e \in Entries(cart) : e.pid = key).qty
    ELSE Zero

\* C13: in every reachable state, adding a product id the catalog does not
\* hold answers "Product not found" and leaves the session as it is; adding
\* one it holds raises the quantity under that id by exactly 1, from 0 when
\* the cart has no such entry, and changes no other entry; adding it twice
\* to a cart without it gives quantity 2.
C13_Add ==
    \A pid \in AddPids :
        LET r == add_to_cart(PRODUCTS, session, pid)
            after == session_get_cart(r.session)
            twice == session_get_cart(add_to_cart(PRODUCTS, r.session, pid).session)
        IN  IF ~InCatalog(PRODUCTS, pid)
            THEN /\ r.session = session
                 /\ r.resp.status = 302
                 /\ Flashed(r.resp, "error", "Product not found")
            ELSE /\ Flashed(r.resp, "success", "Added")
                 /\ QtyOf(after, str(pid)) = Add(QtyOf(Cart, str(pid)), Num(1))
                 /\ { e \in Entries(after) : e.pid # str(pid) }
                        = { e \in Entries(Cart) : e.pid # str(pid) }
                 /\ Len(after) = Cardinality(Entries(after))
                 /\ Cardinality({ e \in Entries(after) : e.pid = str(pid) }) = 1
                 /\ QtyOf(Cart, str(pid)) = Zero => QtyOf(twice, str(pid)) = Num(2)

\* Product 1 was added to a cart that held it once and now holds it twice.
C13_Witness ==
    /\ last.op = "add_to_cart"
    /\ Flashed(last.resp, "success", "Added")
    /\ Cart = << [pid |-> <<49>> (* "1" *), qty |-> Num(2)] >>

\* An add of a product the catalog does not hold was refused while the cart
\* held entries.
AddRefused ==
    /\ last.op = "add_to_cart"
    /\ Flashed(last.resp, "error", "Product not found")
    /\ Cart # << >>

\* The fields of a submission that name a quantity for a product id and
\* whose value is an integer above 0; of a name sent twice the first.
KeptFields(data) ==
    { k \in 1..Len(data) :
        /\ \A j \in 1..(k - 1) : data[j][1] # data[k][1]
        /\ startswith(data[k][1], QtyPrefix)
        /\ ParseInt(data[k][2]).exc = ""
        /\ Less(Zero, ParseInt(data[k][2]).val) }

\* C14: in every reachable state, whatever the cart holds, a submission of
\* quantities leaves a cart of exactly the submitted ids whose value is an
\* integer above 0, each with that integer; every other submitted id and
\* every id of the previous cart that was not submitted is absent; the
\* answer is the redirect to the cart page, without any error message.
C14_SetQuantities ==
    \A data \in UpdateForms :
        LET r == update_cart(session, data)
            after == session_get_cart(r.session)
        IN  /\ r.resp.status = 302
            /\ r.resp.to = "cart"
            /\ r.resp.flash = << >>
            /\ "cart" \in r.session.keys
            /\ Entries(after) =
                  { [pid |-> SubSeq(data[k][1], Len(QtyPrefix) + 1, Len(data[k][1])),
                     qty |-> ParseInt(data[k][2]).val] : k \in KeptFields(data) }
            /\ Len(after) = Cardinality(Entries(after))

\* The cart was set from the fields qty-2=x and qty-1=1: only product 1 is
\* in it.
C14_Witness ==
    /\ last.op = "update_cart"
    /\ last.resp.to = "cart"
    /\ Cart = << [pid |-> <<49>> (* "1" *), qty |-> Num(1)] >>

\* The submission asks for the hosted payment and a Stripe key is configured.
StripeAsked == last'.form.pay_method = PyStr(<<115, 116, 114, 105, 112, 101>> (* "stripe" *)) /\ Truthy(STRIPE_SECRET)

\* One step of a submission comes before another.
Precedes(steps, a, b) ==
    \E i, j \in 1..Len(steps) : i < j /\ steps[i] = a /\ steps[j] = b

\* C15: a submission requests a payment session only if it asks for the
\* hosted payment and a Stripe key is configured, and then only after its
\* order was inserted, for that order; every submission that persists an
\* order without both is answered by the redirect to the confirmation page
\* with the id of the order just inserted, and requests no payment session.
C15_PaymentOnlyWhenAskedAndConfigured ==
    [][ Submitted =>
          /\ (\/ Contains(last'.steps, "stripe")
              \/ last'.stripe_req # << >>
              \/ last'.resp.to = "stripe") =>
                /\ StripeAsked
                /\ Persisted
                /\ Precedes(last'.steps, "insert", "stripe")
                /\ Len(last'.stripe_req) = 1
                /\ last'.stripe_req[1].success_order_id = LastOrder'.id
          /\ (orders' # OrdersFound /\ ~StripeAsked) =>
                /\ last'.resp = Redirect("success", 302, LastOrder'.id, << >>)
                /\ last'.stripe_req = << >>
                /\ ~Contains(last'.steps, "stripe") ]_vars

\* A submission asked for the hosted payment while no Stripe key was
\* configured: its order is there and the visitor was sent to the
\* confirmation page of that order.
C15_Witness ==
    /\ last.op = "checkout_post"
    /\ last.form.pay_method = PyStr(<<115, 116, 114, 105, 112, 101>> (* "stripe" *))
    /\ ~Truthy(STRIPE_SECRET)
    /\ orders # << >>
    /\ last.resp.to = "success"
    /\ last.resp.order_id = LastOrder.id
    /\ last.stripe_req = << >>

\* A submission was sent to the hosted payment page of its order.
PaymentRedirected ==
    /\ last.op = "checkout_post"
    /\ last.resp.to = "stripe"
    /\ last.resp.status = 303
    /\ orders # << >>
    /\ last.stripe_req[1].success_order_id = LastOrder.id

\* The secret the listing is compared with: the configured one, or the
\* fallback when none is configured.
ConfiguredSecret(pw) == IF pw = None THEN PyStr(<<97, 100, 109, 105, 110, 49, 50, 51>> (* "admin123" *)) ELSE pw

\* C16: in every reachable state, a listing request whose secret is absent
\* or differs from the configured one (the fallback when none is
\* configured) is answered as denied, without orders and without a query
\* on the order table; orders are shown only to the equal secret, and then
\* they are all the rows of the table, the newest first.
C16_AdminSecret ==
    \A pw \in AdminPasswords, p \in AdminArgs, db \in {"ok", "OperationalError"} :
        LET r == admin(orders, pw, p, db)
            listing == r.resp.orders
        IN  /\ p # ConfiguredSecret(pw) =>
                  /\ r.resp.denied
                  /\ r.resp.orders_none
                  /\ listing = << >>
                  /\ r.steps = << >>
            /\ (~r.resp.orders_none \/ listing # << >> \/ r.steps # << >>) =>
                  p = ConfiguredSecret(pw)
            /\ (p = ConfiguredSecret(pw) /\ db = "ok") =>
                  /\ ~r.resp.denied
                  /\ ~r.resp.orders_none
                  /\ Len(listing) = Len(orders)
                  /\ \A i, j \in 1..Len(listing) : i < j => listing[i].id > listing[j].id
                  /\ \A k \in 1..Len(orders) : \E i \in 1..Len(listing) :
                        listing[i] = [orders[k] EXCEPT !.items = json_loads(@)]

\* A listing request with a wrong or missing secret was denied while the
\* table held an order.
C16_Witness ==
    /\ last.op = "admin"
    /\ last.resp.denied
    /\ last.resp.orders_none
    /\ last.resp.orders = << >>
    /\ last.steps = << >>
    /\ orders # << >>

\* The table holds two orders, the case in which the order of the listing
\* shows.
TwoOrders == Len(orders) = 2 /\ orders[1].id < orders[2].id

\* The steps of a submission in the order the claim fixes, each followed by
\* what its failure logs.
StepOrder ==
    << "validate", "insert", "except:sqlite3.Error", "clear", "notify", "smtp",
       "print:Email send failed", "stripe", "except:StripeError" >>

Rank(step) == CHOOSE k \in 1..Len(StepOrder) : StepOrder[k] = step

Count(q, x) == Cardinality({ k \in 1..Len(q) : q[k] = x })

\* C17: the steps of a submission are taken in the order validate, insert,
\* clear the cart, notify, payment session, none of them twice; the
\* confirmation is attempted exactly once by a submission that persists an
\* order, after the insert and the clearing of the cart and before the
\* payment session, and not at all by a submission that persists none.
C17_StepOrder ==
    [][ Submitted =>
          /\ \A k \in 1..Len(last'.steps) : Contains(StepOrder, last'.steps[k])
          /\ \A i, j \in 1..Len(last'.steps) :
                i < j => Rank(last'.steps[i]) < Rank(last'.steps[j])
          /\ Count(last'.steps, "notify") = (IF orders' # OrdersFound THEN 1 ELSE 0)
          /\ Count(last'.steps, "smtp") <= Count(last'.steps, "notify")
          /\ orders' # OrdersFound =>
                /\ SubSeq(last'.steps, 1, 4) = <<"validate", "insert", "clear", "notify">>
                /\ Cart' = << >>
          /\ Contains(last'.steps, "except:sqlite3.Error") =>
                ~Contains(last'.steps, "clear")
          /\ Contains(last'.steps, "stripe") =>
                Precedes(last'.steps, "notify", "stripe") ]_vars

\* A submission went through every step: the order inserted, the cart
\* cleared, the confirmation attempted once and failed in the SMTP exchange,
\* the payment session requested.
C17_Witness ==
    /\ last.op = "checkout_post"
    /\ last.steps = << "validate", "insert", "clear", "notify", "smtp",
                       "print:Email send failed", "stripe" >>
    /\ orders # << >>
    /\ Cart = << >>

\* The exit a response stands for, "Abort" when it is none of the six.
ExitOf(resp) ==
    IF resp.status \notin {302, 303} THEN "Abort"
    ELSE IF resp.to = "index" /\ Flashed(resp, "error", "Your cart is empty")
    THEN "EmptyCart"
    ELSE IF resp.to = "checkout" /\ Flashed(resp, "error", "Please enter name and phone")
    THEN "ValidationFailed"
    ELSE IF resp.to = "checkout" /\ Flashed(resp, "error", "Database error")
    THEN "PersistFailed"
    ELSE IF resp.to = "stripe" /\ resp.status = 303
    THEN "PAYMENT_REDIRECT"
    ELSE IF resp.to = "checkout" /\ Flashed(resp, "error", "Payment processing error")
    THEN "PersistedButPaymentFailed"
    ELSE IF resp.to = "success" /\ resp.order_id # 0
    THEN "DIRECT_SUCCESS"
    ELSE "Abort"

Exits ==
    { "EmptyCart", "ValidationFailed", "PersistFailed", "PAYMENT_REDIRECT",
      "PersistedButPaymentFailed", "DIRECT_SUCCESS" }

\* C18: every checkout submission ends in one of the six exits, each a
\* redirect; none ends without one.
C18_SubmissionExits ==
    [][ Submitted => ExitOf(last'.resp) \in Exits ]_vars

\* The items of the cart can be written as JSON and their total bound as a
\* 64-bit integer.
CartStorable ==
    /\ ~json_dumps_raises(ExpectedItems(PRODUCTS, Cart))
    /\ FitsInteger(SumSubtotals(ExpectedItems(PRODUCTS, Cart)))

\* What holds of the exits: the same, for the carts whose keys int()
\* accepts, or any cart while the catalog is empty, and whose items and
\* total the insert can bind; the exit agrees with what the submission did.
SubmissionExits_ParsableCart ==
    [][ (/\ Submitted
         /\ (CartKeysParse \/ PRODUCTS = << >>)
         /\ (CartKeysParse => CartStorable)) =>
          /\ ExitOf(last'.resp) \in Exits
          /\ ExitOf(last'.resp) = "EmptyCart" <=> Cart = << >>
          /\ ExitOf(last'.resp) \in
                {"PAYMENT_REDIRECT", "PersistedButPaymentFailed", "DIRECT_SUCCESS"}
                <=> orders' # OrdersFound ]_vars

\* A valid submission of a cart whose total is no 64-bit integer ended in
\* the sqlite3.Error of the preparation of the INSERT, which precedes the
\* binding of the total.
PrepareFailedBeforeBind ==
    /\ last.op = "checkout_post"
    /\ Contains(last.steps, "except:sqlite3.Error")
    /\ Flashed(last.resp, "error", "Database error")
    /\ Cart # << >>
    /\ ~FitsInteger(SumSubtotals(ExpectedItems(PRODUCTS, Cart)))

\* A checkout submission ended in an exception.
SubmissionAbort ==
    /\ last.op = "checkout_post"
    /\ last.resp.status = 500

\* This step runs the handler of the checkout submission r up to its
\* commit.
Handles(r) == inflight[r].pc = "open" /\ inflight'[r].pc = "handled"

\* This step sends the response of the checkout submission r.
Responds(r) == inflight[r].pc = "handled" /\ inflight'[r].pc = "idle"

\* This step runs the handler of request r and sends its response.
Finishes(r) == inflight[r].pc = "open" /\ inflight'[r].pc = "idle"

\* The cart of the copy that request r loaded when it started.
CartRead(r) == session_get_cart(inflight[r].sess)

\* C19: requests of one session served at once are not coordinated, and
\* the last write to the session wins. A checkout submission that read a
\* non-empty cart when it started persists an order of that cart, under an
\* id no other order has, whatever was stored in the session since (another
\* submission of the same cart may have persisted its order and cleared
\* the cart): unless its form lacks name or phone, the insert fails or the
\* line items raise; the row is in the table before the session is stored.
\* When its response leaves, a submission that persisted leaves the stored
\* session without cart, and one that was refused leaves its copy as read.
\* A refused add stores the copy as read, an add stores the cart it read
\* with the product added, which is not empty, whatever a checkout cleared
\* meanwhile, and an update stores the cart its form sets.
C19_LastWriteWins ==
    [][ \A r \in Slots :
          /\ Handles(r) =>
                /\ session' = session
                /\ IF /\ CartRead(r) # << >>
                      /\ ~Missing(inflight'[r].form.name)
                      /\ ~Missing(inflight'[r].form.phone)
                      /\ ~Contains(inflight'[r].res[1].steps, "except:sqlite3.Error")
                      /\ ~(inflight'[r].res[1].resp.status = 500
                             /\ ~Contains(inflight'[r].res[1].steps, "clear"))
                   THEN /\ RowAdded
                        /\ \A k \in 1..Len(orders) : orders[k].id # LastOrder'.id
                        /\ json_loads(LastOrder'.items)
                              = ExpectedItems(PRODUCTS, CartRead(r))
                   ELSE orders' = orders
          /\ Responds(r) =>
                /\ orders' = orders
                /\ (Contains(last'.steps, "clear") /\ last'.resp.status # 500) =>
                      Cart' = << >>
                /\ (last'.resp.flash # << >> /\ ~Contains(last'.steps, "clear")) =>
                      session' = inflight[r].sess
          /\ Finishes(r) =>
                /\ orders' = orders
                /\ (inflight[r].op = "add_to_cart"
                      /\ Flashed(last'.resp, "error", "Product not found")) =>
                      session' = inflight[r].sess
                /\ (inflight[r].op = "add_to_cart"
                      /\ Flashed(last'.resp, "success", "Added")) =>
                      /\ Cart' # << >>
                      /\ \A e \in Entries(CartRead(r)) :
                            QtyOf(Cart', e.pid) \in {e.qty, Add(e.qty, Num(1))}
                      /\ Len(Cart') \in {Len(CartRead(r)), Len(CartRead(r)) + 1}
                      /\ \E e \in Entries(Cart') :
                            e.qty = Add(QtyOf(CartRead(r), e.pid), Num(1))
                /\ (inflight[r].op = "checkout_get" /\ CartRead(r) = << >>) =>
                      session' = inflight[r].sess
                /\ inflight[r].op = "update_cart" =>
                      \E data \in ConcUpdateForms :
                          Cart' = update_cart_loop(data, 1, << >>) ]_vars

\* Four requests: one set the cart; an add and two submissions read it
\* before any of them responded; each submission persisted an order of it
\* and cleared the stored cart, and the add stored its copy last. Two
\* orders with distinct ids and equal items, and a cart that holds one
\* more of a product than was ordered, which an add that started after a
\* checkout had cleared the cart cannot leave.
C19_Witness ==
    /\ served = 4
    /\ \A r \in Slots : inflight[r].pc = "idle"
    /\ Len(orders) = 2
    /\ orders[1].id # orders[2].id
    /\ orders[1].items = orders[2].items
    /\ json_loads(orders[1].items) # << >>
    /\ last.op = "add_to_cart"
    /\ \E k \in 1..Len(json_loads(orders[2].items)) :
          QtyOf(Cart, str(json_loads(orders[2].items)[k].id))
              = Add(json_loads(orders[2].items)[k].qty, Num(1))

\* Three requests: one set the cart and two submissions each persisted an
\* order of it.
TwoOrdersOfOneCart ==
    /\ served = 3
    /\ \A r \in Slots : inflight[r].pc = "idle"
    /\ Len(orders) = 2
    /\ orders[1].id # orders[2].id
    /\ orders[1].items = orders[2].items
    /\ Cart = << >>

\* A submission has committed its row and not yet responded: the row is in
\* the table while the stored session still holds the cart.
RowBeforeStore ==
    \E r \in Slots :
        /\ inflight[r].pc = "handled"
        /\ Contains(inflight[r].res[1].steps, "clear")
        /\ Len(orders) = 1
        /\ json_loads(orders[1].items) = ExpectedItems(PRODUCTS, Cart)
        /\ Cart # << >>

\* A submission committed an order of the cart it had read after another
\* had stored the session without cart.
CommitAfterClear ==
    \E r \in Slots :
        /\ inflight[r].pc = "handled"
        /\ Contains(inflight[r].res[1].steps, "clear")
        /\ CartRead(r) # << >>
        /\ Cart = << >>
        /\ Len(orders) = 2

\* No entry of the cart resolves in the catalog.
NoneResolves(P, cart) == \A k \in 1..Len(cart) : ~Resolves(P, cart[k])

\* C20: a submission with name and phone from a cart that is not empty and
\* none of whose ids resolve persists, unless the insert fails, an order
\* with the items [] and total 0, clears the cart, attempts the
\* notification and redirects.
C20_UnresolvedCartOrder ==
    [][ (/\ Submitted
         /\ Cart # << >>
         /\ NoneResolves(PRODUCTS, Cart)
         /\ ~Missing(last'.form.name) /\ ~Missing(last'.form.phone)
         /\ ~Contains(last'.steps, "except:sqlite3.Error")) =>
            /\ Persisted
            /\ json_loads(LastOrder'.items) = << >>
            /\ LastOrder'.total = PyFloat(Zero)
            /\ Cart' = << >>
            /\ Contains(last'.steps, "notify")
            /\ last'.resp.status \in {302, 303} ]_vars

\* What holds of such a submission: the same, when every key of the cart
\* is one int() accepts or the catalog is empty.
UnresolvedCartOrder_ParsableCart ==
    [][ (/\ Submitted
         /\ Cart # << >>
         /\ NoneResolves(PRODUCTS, Cart)
         /\ (CartKeysParse \/ PRODUCTS = << >>)
         /\ ~Missing(last'.form.name) /\ ~Missing(last'.form.phone)
         /\ ~Contains(last'.steps, "except:sqlite3.Error")) =>
            /\ Persisted
            /\ json_loads(LastOrder'.items) = << >>
            /\ LastOrder'.total = PyFloat(Zero)
            /\ Cart' = << >>
            /\ Contains(last'.steps, "notify")
            /\ last'.resp.status \in {302, 303} ]_vars

\* An order without items and of total 0 was persisted and its submission
\* redirected to the confirmation page, while the catalog has products.
EmptyOrderPersisted ==
    /\ last.op = "checkout_post"
    /\ last.resp.to = "success"
    /\ orders # << >>
    /\ json_loads(LastOrder.items) = << >>
    /\ LastOrder.total = PyFloat(Zero)
    /\ PRODUCTS # << >>
    /\ Cart = << >>

====
